---- MODULE Spec2Model ----
(***************************************************************************)
(* Status synchronization engine of the BillingExtensions SDK:             *)
(* createBillingExtensionsClient (client/createClient.ts), the status diff *)
(* (core/diff.ts) and the best-effort storage accessors (core/storage.ts). *)
(* Several clients (one per execution context) share one chrome.storage.   *)
(***************************************************************************)
EXTENDS Integers, Sequences, FiniteSets, TLC

VARIABLES
    env,                        \* which chrome APIs exist in this installation
    app,                        \* what the embedding application uses the client for
    now,                        \* Date.now()
    store,                      \* chrome.storage: tier -> key -> entry
    events,                     \* per context: pending chrome.storage.onChanged events
    currentStatus,              \* per client: let currentStatus
    statusFetchedAt,            \* per client: fetch time of the value in currentStatus (history)
    handlers,                   \* per client: const handlers = new Set() (insertion order)
    storageListenerAttached,    \* per client
    task,                       \* per client and kind: position of a running doRefresh caller
    refreshInFlight,            \* per client: calls and requests of the in-flight autoSyncRefresh
    swrCheckInFlight,           \* per client: position of the SWR check
    backgroundTracking,         \* per client: flags and registrations of background tracking
    budget,                     \* calls the environment may still make
    ret,                        \* the public call that returned last (history)
    dispatch,                   \* the handler calls made by the last step (history)
    autoSync,                   \* per client: AutoSync state, listeners and timers
    probe,                      \* a function of the library applied to given arguments
    unsubscribers               \* per client and handler: its unsubscribe function is "none", "returned" or "called"

vars == <<env, app, now, store, events, currentStatus, statusFetchedAt, handlers,
          storageListenerAttached, task, refreshInFlight, swrCheckInFlight,
          backgroundTracking, budget, ret, dispatch, autoSync, probe,
          unsubscribers>>

(***************************************************************************)
(* Bounds of the model.                                                    *)
(***************************************************************************)
MaxCalls == 3
MaxTicks == 1

Clients == {"background", "popup"}
Handlers == {"h1", "h2"}

(***************************************************************************)
(* Program constants.                                                      *)
(***************************************************************************)
DEFAULT_CACHE_TTL_MS == 30000
SWR_COOLDOWN_MS == 5000

STATUS_CACHE_KEY == "billingextensions_status_cache"
LAST_SWR_AT_KEY == "billingextensions_last_swr_at"
CHECKOUT_RETURN_MESSAGE == "BILLINGEXTENSIONS_CHECKOUT_RETURNED"
DEFAULT_BG_ALARM_NAME == "billingextensions_status_tracking"

Keys == {STATUS_CACHE_KEY, LAST_SWR_AT_KEY}
Tiers == {"session", "local"}

\* Date.now() at construction, the time at which an earlier context saved its
\* status, and the amounts by which the clock advances.
StartTime == 4 * DEFAULT_CACHE_TTL_MS
SeedTime == StartTime - 1000
Delays == {SWR_COOLDOWN_MS - 1000, SWR_COOLDOWN_MS, DEFAULT_CACHE_TTL_MS - 1000,
           DEFAULT_CACHE_TTL_MS}

(***************************************************************************)
(* UserStatus (client/types.ts).  null/undefined is the record Null.       *)
(***************************************************************************)
Null == [null |-> TRUE]

PlanPro == [id |-> "pro", nickname |-> "Pro", status |-> "active",
            currentPeriodEnd |-> "2026-01-01"]
UsageSome == [used |-> 1, limit |-> 10, resetsAt |-> "2026-01-01"]

StatusFree == [extensionUserId |-> "u1", paid |-> FALSE, plan |-> Null, usage |-> Null]
StatusMetered == [extensionUserId |-> "u1", paid |-> TRUE, plan |-> PlanPro,
                  usage |-> UsageSome]

\* What the status endpoint may answer.
Statuses == {StatusFree, StatusMetered}

(***************************************************************************)
(* core/diff.ts                                                            *)
(***************************************************************************)
computeEntitlementChanged(prev, next) ==
    IF prev = Null THEN TRUE ELSE prev.paid # next.paid

\* A diff that takes every status for a first observation of its plan.
PlanChangedWhenPresent(prev, next) == next.plan # Null

computePlanChanged(prev, next) ==
    IF prev = Null THEN next.plan # Null
    ELSE IF prev.plan = Null /\ next.plan = Null THEN FALSE
    ELSE IF prev.plan = Null \/ next.plan = Null THEN TRUE
    ELSE \/ prev.plan.id # next.plan.id
         \/ prev.plan.nickname # next.plan.nickname
         \/ prev.plan.status # next.plan.status
         \/ prev.plan.currentPeriodEnd # next.plan.currentPeriodEnd

\* A diff that compares the count of a usage and nothing else of it.
UsageChangedByCount(prev, next) ==
    IF prev = Null THEN next.usage # Null
    ELSE IF prev.usage = Null /\ next.usage = Null THEN FALSE
    ELSE IF prev.usage = Null \/ next.usage = Null THEN TRUE
    ELSE prev.usage.used # next.usage.used

\* A diff that never reports the usage section.
UsageNeverChanged(prev, next) == FALSE

computeUsageChanged(prev, next) ==
    IF prev = Null THEN next.usage # Null
    ELSE IF prev.usage = Null /\ next.usage = Null THEN FALSE
    ELSE IF prev.usage = Null \/ next.usage = Null THEN TRUE
    ELSE \/ prev.usage.used # next.usage.used
         \/ prev.usage.limit # next.usage.limit
         \/ prev.usage.resetsAt # next.usage.resetsAt

computeStatusDiff(prev, next) ==
    [entitlementChanged |-> computeEntitlementChanged(prev, next),
     planChanged |-> computePlanChanged(prev, next),
     usageChanged |-> computeUsageChanged(prev, next)]

hasAnyChange(diff) ==
    diff.entitlementChanged \/ diff.planChanged \/ diff.usageChanged

areStatusesEqual(a, b) ==
    IF a = Null /\ b = Null THEN TRUE
    ELSE IF a = Null \/ b = Null THEN FALSE
    ELSE ~hasAnyChange(computeStatusDiff(a, b))

(***************************************************************************)
(* The environment: which chrome APIs exist for this installation.         *)
(***************************************************************************)
EnvMV3 == [session |-> TRUE, local |-> TRUE, onMessage |-> TRUE, alarms |-> TRUE]
EnvMV2 == [session |-> FALSE, local |-> TRUE, onMessage |-> TRUE, alarms |-> FALSE]
EnvNoChrome == [session |-> FALSE, local |-> FALSE, onMessage |-> FALSE, alarms |-> FALSE]
Envs == {EnvMV3, EnvMV2, EnvNoChrome}

(***************************************************************************)
(* core/storage.ts                                                         *)
(***************************************************************************)
isChromeStorageAvailable == env.local
isSessionStorageAvailable == env.session

\* A storage call may fail (chrome.runtime.lastError) while faults remain.
MayFail == budget.faults > 0

\* A rejected promise of a storage accessor.
Rejected == [rejected |-> TRUE]

\* getFromLocalStorage(key): the <<value or Rejected, fault met>> pairs it may
\* settle to; it throws when chrome.storage.local is not available.
getFromLocalStorage(key) ==
    IF ~isChromeStorageAvailable THEN {<<Rejected, 0>>}
    ELSE {<<store["local"][key], 0>>}
         \cup (IF MayFail THEN {<<Rejected, 1>>} ELSE {})

\* setInLocalStorage(key, value): the <<tier written or "rejected", fault met>>
\* pairs.
setInLocalStorage(key) ==
    IF ~isChromeStorageAvailable THEN {<<"rejected", 0>>}
    ELSE {<<"local", 0>>} \cup (IF MayFail THEN {<<"rejected", 1>>} ELSE {})

\* An accessor whose failure is not caught.
Escaped(out) == out

\* try { return await getFromLocalStorage(key) } catch { return undefined }
Swallowed(out) == IF out[1] = Rejected THEN <<Null, out[2]>> ELSE out

\* try { await setInLocalStorage(key, value) } catch {}
Ignored(out) == IF out[1] = "rejected" THEN <<"none", out[2]>> ELSE out

\* getFromBestStorage(key): the <<value, fault met>> pairs it may resolve to.
\* A session read that succeeds is returned as it is, absent or not; the local
\* tier is read only when the session tier is unavailable or threw; a failure
\* of the local read resolves to absent.
getFromBestStorage(key) ==
    LET local == IF isChromeStorageAvailable
                 THEN {Swallowed(out) : out \in getFromLocalStorage(key)}
                 ELSE {<<Null, 0>>}
    IN  IF isSessionStorageAvailable
        THEN {<<store["session"][key], 0>>}
             \cup (IF MayFail THEN {<<out[1], 1>> : out \in local} ELSE {})
        ELSE local

\* setInBestStorage(key, value): the <<tier written or "none", fault met>>
\* pairs; a failure of both tiers is swallowed.
setInBestStorage(key) ==
    LET local == IF isChromeStorageAvailable
                 THEN {Ignored(out) : out \in setInLocalStorage(key)}
                 ELSE {<<"none", 0>>}
    IN  IF isSessionStorageAvailable
        THEN {<<"session", 0>>}
             \cup (IF MayFail THEN {<<out[1], 1>> : out \in local} ELSE {})
        ELSE local

\* The tier the session accessors use: session when there is one, else local.
BestTierOf(e) ==
    IF e.session THEN "session" ELSE IF e.local THEN "local" ELSE "none"

\* chrome.storage.<tier>.set({[key]: value}): the store after the write.
StoreAfter(tier, key, value) ==
    IF tier = "none" THEN store
    ELSE [store EXCEPT ![tier][key] = value]

\* A store whose writes raise no change-event.
EventsAfterNone(tier, key, value) == events

\* chrome.storage.onChanged: one event per context with a listener, carrying
\* the old and the new value of the key in the tier written, when they differ.
EventsAfter(tier, key, value) ==
    IF tier = "none" \/ store[tier][key] = value THEN events
    ELSE [c \in Clients |->
            IF storageListenerAttached[c]
            THEN Append(events[c], [key |-> key, oldValue |-> store[tier][key],
                                    newValue |-> value])
            ELSE events[c]]

(***************************************************************************)
(* client/createClient.ts: values of the model.                            *)
(***************************************************************************)
Kinds == {"getUser", "refresh", "auto"}

\* A caller of doRefresh that is not running.
Idle == [pc |-> "idle", force |-> FALSE, held |-> FALSE, load |-> "none",
         readAge |-> 0, fetches |-> 0, alone |-> TRUE, pending |-> Null,
         issuedAt |-> 0]

NotInFlight == [set |-> FALSE, calls |-> 0, requests |-> 0]
NoSwr == [pc |-> "idle", at |-> 0]
NoTracking == [enabled |-> FALSE, messageListenerAttached |-> FALSE,
               alarmListenerAttached |-> FALSE, calls |-> 0, messageListeners |-> 0,
               alarmListeners |-> 0, alarmsCreated |-> 0, warmups |-> 0]

NoRet == [ctx |-> "", op |-> "none", force |-> FALSE, held |-> FALSE, ok |-> FALSE,
          value |-> Null, fetches |-> 0, hit |-> "none", load |-> "none",
          readAge |-> 0, swr |-> FALSE, alone |-> TRUE, fetchedAt |-> 0,
          issuedAt |-> 0, saved |-> "none", input |-> "", cause |-> "none"]
NoDispatch ==
    [ctx |-> "", via |-> "none", event |-> Null, calls |-> <<>>, threw |-> FALSE]

\* The handlers whose body throws when they are called.
Throwing == {"h1"}

\* A handler called with nothing around the call.
CaughtNever(h) == FALSE

\* try { handler(next, prev, diff) } catch { }
Caught(h) == TRUE

\* The call of h ends with an exception that leaves the loop.
Escapes(h) == h \in Throwing /\ ~Caught(h)

\* for (const handler of handlers): the calls made, the loop ending with the
\* first exception that escapes.
CallsMade(calls) ==
    LET escaping == {i \in 1..Len(calls) : Escapes(calls[i].handler)}
    IN  IF escaping = {} THEN calls
        ELSE SubSeq(calls, 1, CHOOSE i \in escaping : \A j \in escaping : i <= j)

\* An exception left the dispatch that made these calls.
Escaping(calls) == \E i \in 1..Len(calls) : Escapes(calls[i].handler)

\* notifyHandlers without its early return on an empty diff.
notifyHandlersAlways(c, next, prev) ==
    [i \in 1..Len(handlers[c]) |->
        [handler |-> handlers[c][i], next |-> next, prev |-> prev,
         diff |-> computeStatusDiff(prev, next)]]

(***************************************************************************)
(* notifyHandlers(next, prev): the handler calls it makes, in order.       *)
(***************************************************************************)
notifyHandlers(c, next, prev) ==
    LET diff == computeStatusDiff(prev, next)
    IN  IF prev # Null /\ ~hasAnyChange(diff) THEN <<>>
        ELSE CallsMade([i \in 1..Len(handlers[c]) |->
                          [handler |-> handlers[c][i], next |-> next, prev |-> prev,
                           diff |-> diff]])

(***************************************************************************)
(* loadCachedStatus / saveCachedStatus                                     *)
(***************************************************************************)
\* The staleness test with the boundary age counted as stale.
IsStaleAtTtl(cached) == now - cached.fetchedAt >= DEFAULT_CACHE_TTL_MS

\* const age = Date.now() - cached.fetchedAt; age > DEFAULT_CACHE_TTL_MS
IsStale(cached) == now - cached.fetchedAt > DEFAULT_CACHE_TTL_MS

\* What loadCachedStatus returns for what getFromBestStorage resolved to.
loadCachedStatus(cached) ==
    IF cached = Null THEN Null
    ELSE IF IsStale(cached) THEN Null
    ELSE cached.status

\* A cache entry that does not record when it was written.
CachedStatusUndated(status) == [status |-> status, fetchedAt |-> 0]

\* const cached = {status, fetchedAt: Date.now()}
CachedStatus(status) == [status |-> status, fetchedAt |-> now]

(***************************************************************************)
(* autoSyncRefresh(): joins the in-flight refresh or starts one.           *)
(***************************************************************************)
\* autoSyncRefresh without the in-flight check.
JoinsNever(c) == FALSE

\* if (refreshInFlight) return refreshInFlight;
Joins(c) == refreshInFlight[c].set

RefreshInFlightAfterCall(c) ==
    IF Joins(c)
    THEN [refreshInFlight[c] EXCEPT !.calls = @ + 1]
    ELSE [set |-> TRUE, calls |-> refreshInFlight[c].calls + 1,
          requests |-> refreshInFlight[c].requests + 1]

AutoTaskAfterCall(c) ==
    IF Joins(c) THEN task[c]["auto"]
    ELSE [Idle EXCEPT !.pc = "fetch", !.fetches = 1]

\* An autoSyncRefresh that clears its marker only after a refresh that succeeded.
MarkerKeptOnFailure(c, ok) == IF ok THEN NotInFlight ELSE refreshInFlight[c]

\* try { await doRefresh() } catch { } finally { refreshInFlight = null }
MarkerAfterSettle(c, ok) == NotInFlight

\* The promise of autoSyncRefresh settles: it resolves, with nothing, after a
\* doRefresh that resolved with a status (value) or rejected (no value).
AutoSettled(c, value) ==
    [NoRet EXCEPT !.ctx = c, !.op = "autoSyncRefresh", !.ok = TRUE, !.value = value]

\* finally { refreshInFlight = null } and the continuation of an SWR check
\* that awaits this refresh: finally { swrCheckInFlight = null }.
SwrAfterSettle(c) ==
    IF swrCheckInFlight[c].pc = "refresh" THEN NoSwr ELSE swrCheckInFlight[c]

(***************************************************************************)
(* Steps.  Every step names what it returns (ret) and which handlers it    *)
(* calls (dispatch); a step that does neither resets both.                 *)
(***************************************************************************)
\* The calls an embedding application makes, by what it uses the client for:
\* reading the status over time, listening to changes, tracking in the
\* background.
Apps == {"reader", "listener", "tracker"}

Uses(call) ==
    CASE app = "reader" ->
           call \in {"tick", "getUser"}
      [] app = "listener" ->
           call \in {"onStatusChanged", "unsubscribe", "refresh", "forceRefresh"}
      [] app = "tracker" ->
           call \in {"enableBackgroundStatusTracking", "message", "alarm",
                     "forceRefresh"}
      [] app = "subscriber" ->
           call \in {"onStatusChanged", "unsubscribe", "refresh"}
      [] app = "bystander" ->
           call \in {"onStatusChanged", "refresh", "removeFromSessionStorage",
                     "setInSessionStorage"}
      [] app = "prone" ->
           call \in {"getUser", "refresh"}
      [] app = "page" ->
           call \in {"enableAutoSync", "disableAutoSync", "trigger"}
      [] app = "module" ->
           call \in {"activateAutoSync", "disableAutoSync", "trigger"}
      [] OTHER -> FALSE

\* The environment may make this call now.
May(call) == budget.calls > 0 /\ Uses(call)

Spend(calls, faults) ==
    [budget EXCEPT !.calls = @ - calls, !.faults = @ - faults]

\* Another writer of currentStatus ran while the callers of c were running.
Disturbed(c, except) ==
    [k \in Kinds |->
        IF k # except /\ task[c][k].pc # "idle"
        THEN [task[c][k] EXCEPT !.alone = FALSE]
        ELSE task[c][k]]

Returned(c, op, t, ok, value, hit, saved) ==
    [ctx |-> c, op |-> op, force |-> t.force, held |-> t.held, ok |-> ok,
     value |-> value, fetches |-> t.fetches, hit |-> hit, load |-> t.load,
     readAge |-> t.readAge, swr |-> FALSE, alone |-> t.alone, fetchedAt |-> IF t.pending = Null THEN 0 ELSE t.pending.fetchedAt,
     issuedAt |-> t.issuedAt, saved |-> saved, input |-> "", cause |-> "none"]

\* The clock advances.
Tick(d) ==
    /\ May("tick")
    /\ budget.ticks > 0
    /\ now' = now + d
    /\ budget' = [budget EXCEPT !.calls = @ - 1, !.ticks = @ - 1]
    /\ ret' = NoRet
    /\ dispatch' = NoDispatch
    /\ UNCHANGED <<autoSync, probe>>
    /\ UNCHANGED <<env, app, store, events, currentStatus, statusFetchedAt, handlers,
                   unsubscribers,
                   storageListenerAttached, task, refreshInFlight,
                   swrCheckInFlight, backgroundTracking>>

\* The memory check without the forceRefresh test.
ServesMemoryForced(c, force) == currentStatus[c] # Null

\* getUser(opts): if (!forceRefresh && currentStatus !== null)
ServesMemory(c, force) == ~force /\ currentStatus[c] # Null

\* getUser(opts): if (!forceRefresh), the read of the persisted cache
ReadsStore(force) == ~force

GetUserCall(force) == IF force THEN "forceRefresh" ELSE "getUser"

\* getUser(opts) called: its task as it starts.
Called(c, force) ==
    [Idle EXCEPT !.force = force, !.held = currentStatus[c] # Null]

\* getUser(opts): return currentStatus
GetUserFromMemory(c, force) ==
    /\ May(GetUserCall(force))
    /\ task[c]["getUser"].pc = "idle"
    /\ ServesMemory(c, force)
    /\ budget' = Spend(1, 0)
    /\ ret' = [Returned(c, "getUser", Called(c, force), TRUE, currentStatus[c],
                        "memory", "none")
                 EXCEPT !.fetchedAt = statusFetchedAt[c], !.issuedAt = now]
    /\ dispatch' = NoDispatch
    /\ UNCHANGED <<autoSync, probe>>
    /\ UNCHANGED <<env, app, now, store, events, currentStatus, statusFetchedAt,
                   handlers, unsubscribers,
                   storageListenerAttached, task, refreshInFlight,
                   swrCheckInFlight, backgroundTracking>>

\* getUser(opts): nothing served from memory: await loadCachedStatus()
GetUserLoad(c, force) ==
    /\ May(GetUserCall(force))
    /\ task[c]["getUser"].pc = "idle"
    /\ ~ServesMemory(c, force)
    /\ ReadsStore(force)
    /\ budget' = Spend(1, 0)
    /\ task' = [task EXCEPT ![c]["getUser"] = [Called(c, force) EXCEPT !.pc = "load"]]
    /\ ret' = NoRet
    /\ dispatch' = NoDispatch
    /\ UNCHANGED <<autoSync, probe>>
    /\ UNCHANGED <<env, app, now, store, events, currentStatus, statusFetchedAt,
                   handlers, unsubscribers,
                   storageListenerAttached, refreshInFlight, swrCheckInFlight,
                   backgroundTracking>>

\* getUser({forceRefresh: true}): straight to doRefresh()
GetUserForce(c, force) ==
    /\ May(GetUserCall(force))
    /\ task[c]["getUser"].pc = "idle"
    /\ ~ServesMemory(c, force)
    /\ ~ReadsStore(force)
    /\ budget' = Spend(1, 0)
    /\ task' = [task EXCEPT ![c]["getUser"] =
                    [Called(c, force) EXCEPT !.pc = "fetch", !.load = "skipped",
                                             !.fetches = 1]]
    /\ ret' = NoRet
    /\ dispatch' = NoDispatch
    /\ UNCHANGED <<autoSync, probe>>
    /\ UNCHANGED <<env, app, now, store, events, currentStatus, statusFetchedAt,
                   handlers, unsubscribers,
                   storageListenerAttached, refreshInFlight, swrCheckInFlight,
                   backgroundTracking>>

\* schedulePaidSWRRevalidate(): if (swrCheckInFlight) return; else start the check
schedulePaidSWRRevalidate(c) ==
    IF swrCheckInFlight[c].pc # "idle" THEN swrCheckInFlight[c]
    ELSE [pc |-> "read", at |-> 0]

\* A persisted hit that never revalidates.
TriggersSwrNever(cached) == FALSE

\* if (cached.paid === true) schedulePaidSWRRevalidate()
TriggersSwr(cached) == cached.paid

SwrAfterHit(c, cached) ==
    IF TriggersSwr(cached) THEN schedulePaidSWRRevalidate(c) ELSE swrCheckInFlight[c]

\* loadCachedStatus() resolved with a usable entry: the persisted-cache hit
GetUserFromStore(c) ==
    /\ task[c]["getUser"].pc = "load"
    /\ \E out \in getFromBestStorage(STATUS_CACHE_KEY) :
         LET cached == loadCachedStatus(out[1])
             t == [task[c]["getUser"] EXCEPT !.load = "usable",
                                             !.readAge = now - out[1].fetchedAt]
         IN  /\ cached # Null
             /\ budget' = Spend(0, out[2])
             /\ currentStatus' = [currentStatus EXCEPT ![c] = cached]
             /\ statusFetchedAt' = [statusFetchedAt EXCEPT ![c] = out[1].fetchedAt]
             /\ swrCheckInFlight' = [swrCheckInFlight EXCEPT ![c] = SwrAfterHit(c, cached)]
             /\ task' = [task EXCEPT ![c] = [Disturbed(c, "getUser") EXCEPT !["getUser"] = Idle]]
             /\ ret' = [Returned(c, "getUser", t, TRUE, cached, "store", "none")
                          EXCEPT !.fetchedAt = out[1].fetchedAt, !.issuedAt = now,
                                 !.swr = TriggersSwr(cached)]
    /\ dispatch' = NoDispatch
    /\ UNCHANGED <<autoSync, probe>>
    /\ UNCHANGED <<env, app, now, store, events, handlers, unsubscribers,
                   storageListenerAttached,
                   refreshInFlight, backgroundTracking>>

\* loadCachedStatus() resolved with null (absent, stale or unreadable): doRefresh()
GetUserMiss(c) ==
    /\ task[c]["getUser"].pc = "load"
    /\ \E out \in getFromBestStorage(STATUS_CACHE_KEY) :
         /\ loadCachedStatus(out[1]) = Null
         /\ budget' = Spend(0, out[2])
         /\ task' = [task EXCEPT ![c]["getUser"] =
                        [@ EXCEPT !.pc = "fetch", !.fetches = @ + 1,
                                  !.load = IF out[1] # Null THEN "stale"
                                           ELSE IF out[2] = 0 THEN "absent"
                                           ELSE "unreadable",
                                  !.readAge = IF out[1] # Null
                                              THEN now - out[1].fetchedAt ELSE 0]]
    /\ ret' = NoRet
    /\ dispatch' = NoDispatch
    /\ UNCHANGED <<autoSync, probe>>
    /\ UNCHANGED <<env, app, now, store, events, currentStatus, statusFetchedAt,
                   handlers, unsubscribers,
                   storageListenerAttached, refreshInFlight, swrCheckInFlight,
                   backgroundTracking>>

\* refresh(): doRefresh()
Refresh(c) ==
    /\ May("refresh")
    /\ task[c]["refresh"].pc = "idle"
    /\ budget' = Spend(1, 0)
    /\ task' = [task EXCEPT ![c]["refresh"] =
                    [Idle EXCEPT !.pc = "fetch", !.held = currentStatus[c] # Null,
                                 !.load = "skipped", !.fetches = 1]]
    /\ ret' = NoRet
    /\ dispatch' = NoDispatch
    /\ UNCHANGED <<autoSync, probe>>
    /\ UNCHANGED <<env, app, now, store, events, currentStatus, statusFetchedAt,
                   handlers, unsubscribers,
                   storageListenerAttached, refreshInFlight, swrCheckInFlight,
                   backgroundTracking>>

\* doRefresh(): the request the http client sends needs the extension user
\* id, which getOrCreateExtensionUserId reads from chrome.storage.local.
CanFetch == isChromeStorageAvailable

\* A doRefresh that notifies the handlers itself.
DoRefreshNotifies(c, next) == notifyHandlers(c, next, currentStatus[c])

\* doRefresh(): the handler calls it makes itself: none (the store write is
\* what notifies).
DoRefreshCalls(c, next) == <<>>

\* doRefresh(): fetchStatus() resolved; currentStatus = next; saveCachedStatus(next)
\* builds the entry and calls setInBestStorage.
FetchOk(c, k, next) ==
    /\ task[c][k].pc = "fetch"
    /\ CanFetch
    /\ currentStatus' = [currentStatus EXCEPT ![c] = next]
    /\ statusFetchedAt' = [statusFetchedAt EXCEPT ![c] = now]
    /\ task' = [task EXCEPT ![c] = [Disturbed(c, k) EXCEPT
                    ![k] = [task[c][k] EXCEPT !.pc = "save",
                                              !.pending = CachedStatus(next),
                                              !.issuedAt = now]]]
    /\ ret' = NoRet
    /\ dispatch' = [ctx |-> c, via |-> "doRefresh", event |-> Null,
                    calls |-> DoRefreshCalls(c, next),
                    threw |-> Escaping(DoRefreshCalls(c, next))]
    /\ UNCHANGED <<autoSync, probe>>
    /\ UNCHANGED <<env, app, now, store, events, handlers, unsubscribers,
                   storageListenerAttached,
                   refreshInFlight, swrCheckInFlight, backgroundTracking, budget>>

\* What made the request fail: the identity read of the request layer when
\* chrome.storage.local is not available, else the network or the server.
FetchFailure == IF CanFetch THEN "network" ELSE "storage"

\* A doRefresh that forgets the status in memory when its fetch fails.
StatusClearedByFailedFetch(c) == Null

\* const next = await fetchStatus() threw: the assignment currentStatus = next
\* is not reached.
StatusAfterFailedFetch(c) == currentStatus[c]

\* fetchStatus() rejected in getUser() or refresh(): throw normalizeError(error)
FetchFail(c, k) ==
    /\ k # "auto"
    /\ task[c][k].pc = "fetch"
    /\ currentStatus' = [currentStatus EXCEPT ![c] = StatusAfterFailedFetch(c)]
    /\ task' = [task EXCEPT ![c][k] = Idle]
    /\ ret' = [Returned(c, k, task[c][k], FALSE, Null, "none", "none")
                 EXCEPT !.cause = FetchFailure]
    /\ dispatch' = NoDispatch
    /\ UNCHANGED <<autoSync, probe>>
    /\ UNCHANGED <<env, app, now, store, events, statusFetchedAt,
                   handlers, unsubscribers,
                   storageListenerAttached, refreshInFlight, swrCheckInFlight,
                   backgroundTracking, budget>>

\* fetchStatus() rejected in autoSyncRefresh(): catch {} finally { refreshInFlight = null }
AutoFetchFail(c) ==
    /\ task[c]["auto"].pc = "fetch"
    /\ currentStatus' = [currentStatus EXCEPT ![c] = StatusAfterFailedFetch(c)]
    /\ task' = [task EXCEPT ![c]["auto"] = Idle]
    /\ refreshInFlight' = [refreshInFlight EXCEPT ![c] = MarkerAfterSettle(c, FALSE)]
    /\ swrCheckInFlight' = [swrCheckInFlight EXCEPT ![c] = SwrAfterSettle(c)]
    /\ ret' = AutoSettled(c, Null)
    /\ dispatch' = NoDispatch
    /\ autoSync' = [autoSync EXCEPT ![c].failed =
                      IF autoSync[c].executed = <<>> THEN @ ELSE @ \cup {Len(autoSync[c].executed)}]
    /\ UNCHANGED probe
    /\ UNCHANGED <<env, app, now, store, events, statusFetchedAt,
                   handlers, unsubscribers,
                   storageListenerAttached, backgroundTracking, budget>>

\* A saveCachedStatus that lets the failure of the write reach its caller.
ResolvesOnlyIfSaved(tier) == tier # "none"

\* saveCachedStatus: try { await setInBestStorage(...) } catch { }; doRefresh
\* returns next whatever became of the write.
ResolvesAfterSave(tier) == TRUE

\* saveCachedStatus() resolved: getUser()/refresh() return next
SaveDone(c, k) ==
    /\ k # "auto"
    /\ task[c][k].pc = "save"
    /\ \E out \in setInBestStorage(STATUS_CACHE_KEY) :
         /\ store' = StoreAfter(out[1], STATUS_CACHE_KEY, task[c][k].pending)
         /\ events' = EventsAfter(out[1], STATUS_CACHE_KEY, task[c][k].pending)
         /\ budget' = Spend(0, out[2])
         /\ ret' = Returned(c, k, task[c][k], ResolvesAfterSave(out[1]),
                            IF ResolvesAfterSave(out[1])
                            THEN task[c][k].pending.status ELSE Null,
                            "none", out[1])
    /\ task' = [task EXCEPT ![c][k] = Idle]
    /\ dispatch' = NoDispatch
    /\ UNCHANGED <<autoSync, probe>>
    /\ UNCHANGED <<env, app, now, currentStatus, statusFetchedAt, handlers, unsubscribers,
                   storageListenerAttached, refreshInFlight, swrCheckInFlight,
                   backgroundTracking>>

\* saveCachedStatus() resolved in autoSyncRefresh(): finally { refreshInFlight = null }
AutoSaveDone(c) ==
    /\ task[c]["auto"].pc = "save"
    /\ \E out \in setInBestStorage(STATUS_CACHE_KEY) :
         /\ store' = StoreAfter(out[1], STATUS_CACHE_KEY, task[c]["auto"].pending)
         /\ events' = EventsAfter(out[1], STATUS_CACHE_KEY, task[c]["auto"].pending)
         /\ budget' = Spend(0, out[2])
    /\ task' = [task EXCEPT ![c]["auto"] = Idle]
    /\ refreshInFlight' = [refreshInFlight EXCEPT ![c] = MarkerAfterSettle(c, TRUE)]
    /\ swrCheckInFlight' = [swrCheckInFlight EXCEPT ![c] = SwrAfterSettle(c)]
    /\ ret' = AutoSettled(c, task[c]["auto"].pending.status)
    /\ dispatch' = NoDispatch
    /\ UNCHANGED <<autoSync, probe>>
    /\ UNCHANGED <<env, app, now, currentStatus, statusFetchedAt, handlers, unsubscribers,
                   storageListenerAttached, backgroundTracking>>

(***************************************************************************)
(* schedulePaidSWRRevalidate(): the check after its first await.           *)
(***************************************************************************)
\* const last = (await getFromBestStorage(LAST_SWR_AT_KEY)) ?? 0
LastSwrAt(value) == IF value = Null THEN 0 ELSE value.at

\* A cooldown that still holds when exactly SWR_COOLDOWN_MS have elapsed.
InCooldownAtBoundary(last) == now - last <= SWR_COOLDOWN_MS

\* if (now - last < SWR_COOLDOWN_MS) return
InCooldown(last) == now - last < SWR_COOLDOWN_MS

\* The cooldown has not elapsed: return; finally { swrCheckInFlight = null }
SwrSkip(c) ==
    /\ swrCheckInFlight[c].pc = "read"
    /\ \E out \in getFromBestStorage(LAST_SWR_AT_KEY) :
         /\ InCooldown(LastSwrAt(out[1]))
         /\ budget' = Spend(0, out[2])
         /\ ret' = [NoRet EXCEPT !.ctx = c, !.op = "swrSkip",
                                 !.readAge = now - LastSwrAt(out[1])]
    /\ swrCheckInFlight' = [swrCheckInFlight EXCEPT ![c] = NoSwr]
    /\ dispatch' = NoDispatch
    /\ UNCHANGED <<autoSync, probe>>
    /\ UNCHANGED <<env, app, now, store, events, currentStatus, statusFetchedAt,
                   handlers, unsubscribers,
                   storageListenerAttached, task, refreshInFlight, backgroundTracking>>

\* The cooldown has elapsed: await setInBestStorage(LAST_SWR_AT_KEY, now)
SwrPersist(c) ==
    /\ swrCheckInFlight[c].pc = "read"
    /\ \E out \in getFromBestStorage(LAST_SWR_AT_KEY) :
         /\ ~InCooldown(LastSwrAt(out[1]))
         /\ budget' = Spend(0, out[2])
    /\ swrCheckInFlight' = [swrCheckInFlight EXCEPT ![c] = [pc |-> "write", at |-> now]]
    /\ ret' = NoRet
    /\ dispatch' = NoDispatch
    /\ UNCHANGED <<autoSync, probe>>
    /\ UNCHANGED <<env, app, now, store, events, currentStatus, statusFetchedAt,
                   handlers, unsubscribers,
                   storageListenerAttached, task, refreshInFlight, backgroundTracking>>

\* A write that has not reached the store when the next statement runs.
UnawaitedWrite(tier, key, value) == store

\* await setInBestStorage(LAST_SWR_AT_KEY, now): the store when the next
\* statement runs.
AwaitedWrite(tier, key, value) == StoreAfter(tier, key, value)

\* setInBestStorage resolved: await autoSyncRefresh()
SwrRevalidate(c) ==
    /\ swrCheckInFlight[c].pc = "write"
    /\ \E out \in setInBestStorage(LAST_SWR_AT_KEY) :
         LET value == [at |-> swrCheckInFlight[c].at]
         IN  /\ store' = AwaitedWrite(out[1], LAST_SWR_AT_KEY, value)
             /\ events' = EventsAfter(out[1], LAST_SWR_AT_KEY, value)
             /\ budget' = Spend(0, out[2])
    /\ refreshInFlight' = [refreshInFlight EXCEPT ![c] = RefreshInFlightAfterCall(c)]
    /\ task' = [task EXCEPT ![c]["auto"] = AutoTaskAfterCall(c)]
    /\ swrCheckInFlight' = [swrCheckInFlight EXCEPT ![c].pc = "refresh"]
    /\ ret' = NoRet
    /\ dispatch' = NoDispatch
    /\ UNCHANGED <<autoSync, probe>>
    /\ UNCHANGED <<env, app, now, currentStatus, statusFetchedAt, handlers, unsubscribers,
                   storageListenerAttached, backgroundTracking>>

(***************************************************************************)
(* enableBackgroundStatusTracking(opts) and the listeners it registers.    *)
(***************************************************************************)
\* enableBackgroundStatusTracking without its enabled check.
NeverTracking(c) == FALSE

\* if (backgroundTrackingEnabled) return;
AlreadyTracking(c) == backgroundTracking[c].enabled

\* The flags and registrations after the body of the first call.
TrackingAfterEnable(c) ==
    LET b == backgroundTracking[c]
        addMessage == env.onMessage /\ ~b.messageListenerAttached
        addAlarm == env.alarms /\ ~b.alarmListenerAttached
    IN  [enabled |-> TRUE,
         messageListenerAttached |-> b.messageListenerAttached \/ addMessage,
         alarmListenerAttached |-> b.alarmListenerAttached \/ addAlarm,
         calls |-> b.calls + 1,
         messageListeners |-> b.messageListeners + (IF addMessage THEN 1 ELSE 0),
         alarmListeners |-> b.alarmListeners + (IF addAlarm THEN 1 ELSE 0),
         alarmsCreated |-> b.alarmsCreated + (IF env.alarms THEN 1 ELSE 0),
         warmups |-> b.warmups + 1]

\* The first call: register the listeners, create the alarm, kick one refresh.
EnableBackgroundStatusTracking(c) ==
    /\ May("enableBackgroundStatusTracking")
    /\ ~AlreadyTracking(c)
    /\ budget' = Spend(1, 0)
    /\ backgroundTracking' = [backgroundTracking EXCEPT ![c] = TrackingAfterEnable(c)]
    /\ refreshInFlight' = [refreshInFlight EXCEPT ![c] = RefreshInFlightAfterCall(c)]
    /\ task' = [task EXCEPT ![c]["auto"] = AutoTaskAfterCall(c)]
    /\ ret' = NoRet
    /\ dispatch' = NoDispatch
    /\ UNCHANGED <<autoSync, probe>>
    /\ UNCHANGED <<env, app, now, store, events, currentStatus, statusFetchedAt,
                   handlers, unsubscribers,
                   storageListenerAttached, swrCheckInFlight>>

\* A later call returns at once.
EnableBackgroundStatusTrackingAgain(c) ==
    /\ May("enableBackgroundStatusTracking")
    /\ AlreadyTracking(c)
    /\ budget' = Spend(1, 0)
    /\ backgroundTracking' = [backgroundTracking EXCEPT ![c].calls = @ + 1]
    /\ ret' = NoRet
    /\ dispatch' = NoDispatch
    /\ UNCHANGED <<autoSync, probe>>
    /\ UNCHANGED <<env, app, now, store, events, currentStatus, statusFetchedAt,
                   handlers, unsubscribers,
                   storageListenerAttached, task, refreshInFlight, swrCheckInFlight>>

\* chrome.runtime.onMessage listener: msg.type === CHECKOUT_RETURN_MESSAGE
MessageTypes == {CHECKOUT_RETURN_MESSAGE, "OTHER_MESSAGE"}

\* A listener that takes every message for the checkout-returned message.
AnyMessage(type) == TRUE

\* if (msg?.type === CHECKOUT_RETURN_MESSAGE)
IsCheckoutReturn(type) == type = CHECKOUT_RETURN_MESSAGE

\* The listener's answer: sendResponse({ok: true}); return true, or return false.
OnMessage(c, type) ==
    /\ May("message")
    /\ backgroundTracking[c].messageListenerAttached
    /\ budget' = Spend(1, 0)
    /\ IF IsCheckoutReturn(type)
       THEN /\ refreshInFlight' = [refreshInFlight EXCEPT ![c] = RefreshInFlightAfterCall(c)]
            /\ task' = [task EXCEPT ![c]["auto"] = AutoTaskAfterCall(c)]
       ELSE UNCHANGED <<refreshInFlight, task>>
    /\ ret' = [NoRet EXCEPT !.ctx = c, !.op = "message", !.input = type,
                            !.ok = IsCheckoutReturn(type)]
    /\ dispatch' = NoDispatch
    /\ UNCHANGED <<autoSync, probe>>
    /\ UNCHANGED <<env, app, now, store, events, currentStatus, statusFetchedAt,
                   handlers, unsubscribers,
                   storageListenerAttached, swrCheckInFlight, backgroundTracking>>

\* chrome.alarms.onAlarm listener: alarm.name === DEFAULT_BG_ALARM_NAME
AlarmNames == {DEFAULT_BG_ALARM_NAME, "other_alarm"}

\* if (alarm.name === DEFAULT_BG_ALARM_NAME)
IsTrackingAlarm(name) == name = DEFAULT_BG_ALARM_NAME

OnAlarm(c, name) ==
    /\ May("alarm")
    /\ backgroundTracking[c].alarmListenerAttached
    /\ budget' = Spend(1, 0)
    /\ IF IsTrackingAlarm(name)
       THEN /\ refreshInFlight' = [refreshInFlight EXCEPT ![c] = RefreshInFlightAfterCall(c)]
            /\ task' = [task EXCEPT ![c]["auto"] = AutoTaskAfterCall(c)]
       ELSE UNCHANGED <<refreshInFlight, task>>
    /\ ret' = [NoRet EXCEPT !.ctx = c, !.op = "alarm", !.input = name]
    /\ dispatch' = NoDispatch
    /\ UNCHANGED <<autoSync, probe>>
    /\ UNCHANGED <<env, app, now, store, events, currentStatus, statusFetchedAt,
                   handlers, unsubscribers,
                   storageListenerAttached, swrCheckInFlight, backgroundTracking>>

(***************************************************************************)
(* onStatusChanged(handler) and the unsubscribe function it returns.       *)
(***************************************************************************)
\* A collection that iterates from the handler added last.
SetAddFirst(seq, h) ==
    IF \E i \in 1..Len(seq) : seq[i] = h THEN seq ELSE <<h>> \o seq

\* handlers.add(handler): a Set keeps insertion order and holds no duplicate.
SetAdd(seq, h) ==
    IF \E i \in 1..Len(seq) : seq[i] = h THEN seq ELSE Append(seq, h)

\* The call onStatusChanged makes at once when a status is in memory.
ImmediateCalls(c, h) ==
    IF currentStatus[c] = Null THEN <<>>
    ELSE CallsMade(<< [handler |-> h, next |-> currentStatus[c], prev |-> Null,
                       diff |-> [entitlementChanged |-> TRUE,
                                 planChanged |-> currentStatus[c].plan # Null,
                                 usageChanged |-> FALSE]] >>)

OnStatusChanged(c, h) ==
    /\ May("onStatusChanged")
    /\ budget' = Spend(1, 0)
    /\ handlers' = [handlers EXCEPT ![c] = SetAdd(@, h)]
    /\ unsubscribers' = [unsubscribers EXCEPT ![c][h] =
                            IF @ = "none" THEN "returned" ELSE @]
    /\ dispatch' = [ctx |-> c, via |-> "onStatusChanged", event |-> Null,
                    calls |-> ImmediateCalls(c, h),
                    threw |-> Escaping(ImmediateCalls(c, h))]
    /\ ret' = NoRet
    /\ UNCHANGED <<autoSync, probe>>
    /\ UNCHANGED <<env, app, now, store, events, currentStatus, statusFetchedAt,
                   storageListenerAttached, task, refreshInFlight,
                   swrCheckInFlight, backgroundTracking>>

\* A delete that removes the handler registered last.
SetDeleteLast(seq, h) == SubSeq(seq, 1, Len(seq) - 1)

\* handlers.delete(handler)
SetDelete(seq, h) == SelectSeq(seq, LAMBDA x : x # h)

\* The function onStatusChanged(h) returned is called: () => handlers.delete(h).
Unsubscribe(c, h) ==
    /\ May("unsubscribe")
    /\ unsubscribers[c][h] # "none"
    /\ unsubscribers' = [unsubscribers EXCEPT ![c][h] = "called"]
    /\ budget' = Spend(1, 0)
    /\ handlers' = [handlers EXCEPT ![c] = SetDelete(@, h)]
    /\ ret' = NoRet
    /\ dispatch' = [ctx |-> c, via |-> "unsubscribe", event |-> Null, calls |-> <<>>,
                    threw |-> FALSE, handler |-> h]
    /\ UNCHANGED <<autoSync, probe>>
    /\ UNCHANGED <<env, app, now, store, events, currentStatus, statusFetchedAt,
                   storageListenerAttached, task, refreshInFlight,
                   swrCheckInFlight, backgroundTracking>>

(***************************************************************************)
(* The chrome.storage.onChanged listener of attachStorageStatusListener.   *)
(***************************************************************************)
\* const change = changes[STATUS_CACHE_KEY]; if (!change?.newValue) return;
\* if (!cached?.status) return;
CarriesStatus(ev) ==
    /\ ev.key = STATUS_CACHE_KEY
    /\ ev.newValue # Null
    /\ ev.newValue.status # Null

\* A listener that takes the previous status from memory, not from the event.
PrevFromMemory(c, ev) == currentStatus[c]

\* A listener that takes the previous status from memory when it has one.
PrevPreferringMemory(c, ev) ==
    IF currentStatus[c] # Null THEN currentStatus[c]
    ELSE IF ev.oldValue = Null THEN Null ELSE ev.oldValue.status

\* const prev = oldCached?.status ?? null
PrevOf(c, ev) == IF ev.oldValue = Null THEN Null ELSE ev.oldValue.status

\* A listener that keeps the status it holds and takes the event's only when
\* it holds none.
StatusKeptOnEvent(c, ev) ==
    IF currentStatus[c] # Null THEN currentStatus[c] ELSE ev.newValue.status

\* const next = cached.status; currentStatus = next
StatusAfterEvent(c, ev) == ev.newValue.status

\* An event with a cached status: currentStatus = next; notifyHandlers(next, prev)
StorageChanged(c) ==
    /\ events[c] # <<>>
    /\ CarriesStatus(Head(events[c]))
    /\ LET ev == Head(events[c])
       IN  /\ currentStatus' = [currentStatus EXCEPT ![c] = StatusAfterEvent(c, ev)]
           /\ statusFetchedAt' = [statusFetchedAt EXCEPT ![c] = ev.newValue.fetchedAt]
           /\ LET calls == notifyHandlers(c, ev.newValue.status, PrevOf(c, ev))
              IN  dispatch' = [ctx |-> c, via |-> "onChanged", event |-> ev,
                               calls |-> calls, threw |-> Escaping(calls),
                               memory |-> currentStatus[c]]
    /\ events' = [events EXCEPT ![c] = Tail(@)]
    /\ task' = [task EXCEPT ![c] = Disturbed(c, "none")]
    /\ ret' = NoRet
    /\ UNCHANGED <<autoSync, probe>>
    /\ UNCHANGED <<env, app, now, store, handlers, unsubscribers, storageListenerAttached,
                   refreshInFlight, swrCheckInFlight, backgroundTracking, budget>>

\* A listener that forgets the status in memory when the cache entry is removed.
StatusClearedOnRemoval(c, ev) ==
    IF ev.key = STATUS_CACHE_KEY /\ ev.newValue = Null THEN Null ELSE currentStatus[c]

\* if (!change?.newValue) return; if (!cached?.status) return;
StatusAfterIgnoredEvent(c, ev) == currentStatus[c]

\* An event for another key, a removal of the cache entry or an entry with no
\* status: the listener returns at once.
StorageChangedIgnored(c) ==
    /\ events[c] # <<>>
    /\ ~CarriesStatus(Head(events[c]))
    /\ currentStatus' = [currentStatus EXCEPT ![c] =
                             StatusAfterIgnoredEvent(c, Head(events[c]))]
    /\ events' = [events EXCEPT ![c] = Tail(@)]
    /\ dispatch' = [ctx |-> c, via |-> "onChanged", event |-> Head(events[c]),
                    calls |-> <<>>, threw |-> FALSE]
    /\ ret' = NoRet
    /\ UNCHANGED <<autoSync, probe>>
    /\ UNCHANGED <<env, app, now, store, statusFetchedAt, handlers,
                   unsubscribers,
                   storageListenerAttached, task, refreshInFlight,
                   swrCheckInFlight, backgroundTracking, budget>>

\* Other code of the extension removes a key of the library:
\* removeFromSessionStorage(key), the session tier when there is one.
RemoveFromSessionStorage(key) ==
    /\ May("removeFromSessionStorage")
    /\ BestTierOf(env) # "none"
    /\ budget' = Spend(1, 0)
    /\ store' = StoreAfter(BestTierOf(env), key, Null)
    /\ events' = EventsAfter(BestTierOf(env), key, Null)
    /\ ret' = NoRet
    /\ dispatch' = NoDispatch
    /\ UNCHANGED <<autoSync, probe>>
    /\ UNCHANGED <<env, app, now, currentStatus, statusFetchedAt, handlers,
                   unsubscribers, storageListenerAttached, task, refreshInFlight,
                   swrCheckInFlight, backgroundTracking>>

\* What other code may store under a key of the library: an entry without a
\* status under the cache key, a time under the cooldown key.
ForeignValue(key) ==
    IF key = STATUS_CACHE_KEY THEN [status |-> Null, fetchedAt |-> now]
    ELSE [at |-> now]

\* Other code of the extension writes a key of the library:
\* setInSessionStorage(key, value).
SetInSessionStorage(key) ==
    /\ May("setInSessionStorage")
    /\ BestTierOf(env) # "none"
    /\ budget' = Spend(1, 0)
    /\ store' = StoreAfter(BestTierOf(env), key, ForeignValue(key))
    /\ events' = EventsAfter(BestTierOf(env), key, ForeignValue(key))
    /\ ret' = NoRet
    /\ dispatch' = NoDispatch
    /\ UNCHANGED <<autoSync, probe>>
    /\ UNCHANGED <<env, app, now, currentStatus, statusFetchedAt, handlers,
                   unsubscribers, storageListenerAttached, task, refreshInFlight,
                   swrCheckInFlight, backgroundTracking>>

(***************************************************************************)
(* core/autosync.ts: the AutoSync scheduler.  autoSync[c] holds the        *)
(* client's autoSyncState (state), the listeners attached with the state   *)
(* they captured, the pending timers, the times executeRefresh ran, the    *)
(* number of calls of activateAutoSync, the executed refreshes that failed *)
(* (history) and the number of listener sets attached to window and        *)
(* document (attached).                                                    *)
(***************************************************************************)
DEFAULT_AUTOSYNC_OPTIONS ==
    [refreshOnInit |-> TRUE, refreshOnFocus |-> TRUE, refreshOnOnline |-> TRUE,
     debounceMs |-> 300, minIntervalMs |-> 3000]

\* createAutoSyncState(); a null timer is 0, a null cleanup is Null.
createAutoSyncState ==
    [enabled |-> TRUE, activated |-> FALSE, options |-> DEFAULT_AUTOSYNC_OPTIONS,
     lastRefreshAt |-> 0, debounceTimer |-> 0, pendingPostActionRefresh |-> FALSE,
     cleanup |-> Null]

\* A context as the client is being constructed in it.
NoAutoSync(ui) ==
    [ui |-> ui, state |-> createAutoSyncState, listeners |-> Null, timers |-> {},
     nextTimer |-> 1, executed |-> <<>>, attempts |-> 0, failed |-> {},
     attached |-> 0]

\* An extension page whatever the context.
AnyContextIsUi(a) == TRUE

\* isExtensionUiContext(): window, document and an extension protocol
isExtensionUiContext(a) == a.ui

\* const getAutoSyncState = () => autoSyncState: the function itself, which
\* is what createClient hands to activateAutoSync as its state.
getAutoSyncState == [function |-> "getAutoSyncState"]

\* state.enabled, state.activated: undefined, so falsy, on a function
Flag(state, field) ==
    IF state = getAutoSyncState THEN FALSE ELSE state[field]

\* canRefresh(state): now - state.lastRefreshAt >= state.options.minIntervalMs
canRefresh(state) == now - state.lastRefreshAt >= state.options.minIntervalMs

\* clearTimeout(timer)
clearTimeout(timers, timer) == {t \in timers : t.id # timer}

\* scheduleRefresh(state, doRefresh, updateState): clears state.debounceTimer,
\* sets a timer for the rest of the interval or for the debounce time, and
\* updateState({debounceTimer: timer}).
scheduleRefresh(a, state) ==
    LET kept == IF state.debounceTimer # 0
                THEN clearTimeout(a.timers, state.debounceTimer) ELSE a.timers
        waitTime == IF ~canRefresh(state)
                    THEN state.options.minIntervalMs - (now - state.lastRefreshAt)
                    ELSE state.options.debounceMs
        timer == [id |-> a.nextTimer, at |-> now + waitTime]
    IN  [a EXCEPT !.timers = kept \cup {timer},
                  !.nextTimer = @ + 1,
                  !.state.debounceTimer = timer.id]

\* executeRefresh: updateState({lastRefreshAt: Date.now(), debounceTimer: null})
executeRefresh(a) ==
    [a EXCEPT !.state.lastRefreshAt = now,
              !.state.debounceTimer = 0,
              !.executed = Append(@, now)]

\* setupAutoSyncListeners(state, ...): the handlers and the cleanup it returns
\* close over the state they were given.
setupAutoSyncListeners(a, state) ==
    IF ~isExtensionUiContext(a) THEN [captured |-> state, listeners |-> FALSE]
    ELSE [captured |-> state, listeners |-> TRUE]

\* The cleanup function: remove the listeners it added; if the captured
\* state has a timer, clear it and updateState({debounceTimer: null}).
Cleanup(a, cleanup) ==
    LET detached == IF cleanup.listeners
                    THEN [a EXCEPT !.listeners = Null, !.attached = @ - 1]
                    ELSE a
    IN  IF cleanup.captured.debounceTimer # 0
        THEN [detached EXCEPT
                 !.timers = clearTimeout(@, cleanup.captured.debounceTimer),
                 !.state.debounceTimer = 0]
        ELSE detached

\* An activation that does not look at the activated flag.
NeverActivated(state) == FALSE

\* if (state.activated) return;
AlreadyActivated(state) == Flag(state, "activated")

\* activateAutoSync(state, doRefresh, updateState)
activateAutoSync(a, state) ==
    LET called == [a EXCEPT !.attempts = @ + 1]
    IN  IF ~Flag(state, "enabled") THEN called
        ELSE IF AlreadyActivated(state) THEN called
        ELSE IF ~isExtensionUiContext(a) THEN called
        ELSE LET cleanup == setupAutoSyncListeners(a, state)
                 active == [called EXCEPT !.listeners = [captured |-> state],
                                          !.attached = @ + 1,
                                          !.state.activated = TRUE,
                                          !.state.cleanup = cleanup]
             IN  IF state.options.refreshOnInit THEN scheduleRefresh(active, state)
                 ELSE active

\* deactivateAutoSync(state, updateState)
deactivateAutoSync(a, state) ==
    LET cleaned == IF state.cleanup # Null THEN Cleanup(a, state.cleanup) ELSE a
    IN  [cleaned EXCEPT !.state.activated = FALSE, !.state.cleanup = Null]

\* createBillingExtensionsClient, its last statement:
\* void activateAutoSync(getAutoSyncState, autoSyncRefresh, updateAutoSyncState)
AutoInitialized(ui) == activateAutoSync(NoAutoSync(ui), getAutoSyncState)

\* enableAutoSync(): updateAutoSyncState({enabled: true});
\* void activateAutoSync(getAutoSyncState, autoSyncRefresh, updateAutoSyncState)
EnableAutoSync(c) ==
    /\ May("enableAutoSync")
    /\ budget' = Spend(1, 0)
    /\ autoSync' = [autoSync EXCEPT ![c] =
                       activateAutoSync([@ EXCEPT !.state.enabled = TRUE],
                                        getAutoSyncState)]
    /\ ret' = NoRet
    /\ dispatch' = NoDispatch
    /\ UNCHANGED <<probe, env, app, now, store, events, currentStatus, statusFetchedAt,
                   handlers, unsubscribers, storageListenerAttached, task, refreshInFlight,
                   swrCheckInFlight, backgroundTracking>>

\* disableAutoSync(): updateAutoSyncState({enabled: false});
\* deactivateAutoSync(autoSyncState, updateAutoSyncState)
DisableAutoSync(c) ==
    /\ May("disableAutoSync")
    /\ budget' = Spend(1, 0)
    /\ autoSync' = [autoSync EXCEPT ![c] =
                       LET disabled == [@ EXCEPT !.state.enabled = FALSE]
                       IN  deactivateAutoSync(disabled, disabled.state)]
    /\ ret' = NoRet
    /\ dispatch' = NoDispatch
    /\ UNCHANGED <<probe, env, app, now, store, events, currentStatus, statusFetchedAt,
                   handlers, unsubscribers, storageListenerAttached, task, refreshInFlight,
                   swrCheckInFlight, backgroundTracking>>

\* activateAutoSync called as it is declared, with the state:
\* updateState({enabled: true}); activateAutoSync(state, doRefresh, updateState)
ActivateAutoSync(c) ==
    /\ May("activateAutoSync")
    /\ budget' = Spend(1, 0)
    /\ autoSync' = [autoSync EXCEPT ![c] =
                       LET enabled == [@ EXCEPT !.state.enabled = TRUE]
                       IN  activateAutoSync(enabled, enabled.state)]
    /\ ret' = NoRet
    /\ dispatch' = NoDispatch
    /\ UNCHANGED <<probe, env, app, now, store, events, currentStatus, statusFetchedAt,
                   handlers, unsubscribers, storageListenerAttached, task, refreshInFlight,
                   swrCheckInFlight, backgroundTracking>>

\* The events the listeners are attached for; visibilitychange comes with the
\* document visible or hidden.
TriggerEvents == {"focus", "online", "visible", "hidden"}

\* handleFocus, handleOnline, handleVisibility: scheduleRefresh(state, ...)
\* with the state the listeners captured, unless the document is hidden.
Trigger(c, event) ==
    /\ May("trigger")
    /\ autoSync[c].listeners # Null
    /\ budget' = Spend(1, 0)
    /\ autoSync' = [autoSync EXCEPT ![c] =
                       IF event = "hidden" THEN @
                       ELSE scheduleRefresh(@, @.listeners.captured)]
    /\ ret' = NoRet
    /\ dispatch' = NoDispatch
    /\ UNCHANGED <<probe, env, app, now, store, events, currentStatus, statusFetchedAt,
                   handlers, unsubscribers, storageListenerAttached, task, refreshInFlight,
                   swrCheckInFlight, backgroundTracking>>

\* A timer comes due: executeRefresh(doRefresh, updateState), doRefresh being
\* autoSyncRefresh.
TimerFires(c) ==
    /\ \E timer \in autoSync[c].timers :
         /\ timer.at <= now
         /\ autoSync' = [autoSync EXCEPT ![c] =
                            executeRefresh([@ EXCEPT !.timers = @ \ {timer}])]
    /\ refreshInFlight' = [refreshInFlight EXCEPT ![c] = RefreshInFlightAfterCall(c)]
    /\ task' = [task EXCEPT ![c]["auto"] = AutoTaskAfterCall(c)]
    /\ ret' = NoRet
    /\ dispatch' = NoDispatch
    /\ UNCHANGED <<probe, env, app, now, store, events, currentStatus, statusFetchedAt,
                   handlers, unsubscribers, storageListenerAttached, swrCheckInFlight,
                   backgroundTracking, budget>>

\* Time passes, up to the moment the next timer is due.
Waits == {300, 2700, 3000}

Elapse(d) ==
    /\ budget.ticks > 0
    /\ \A c \in Clients : \A timer \in autoSync[c].timers : timer.at >= now + d
    /\ now' = now + d
    /\ budget' = [budget EXCEPT !.ticks = @ - 1]
    /\ ret' = NoRet
    /\ dispatch' = NoDispatch
    /\ UNCHANGED <<autoSync, probe, env, app, store, events, currentStatus,
                   statusFetchedAt, handlers, unsubscribers, storageListenerAttached, task,
                   refreshInFlight, swrCheckInFlight, backgroundTracking>>

(***************************************************************************)
(* The specification.                                                      *)
(***************************************************************************)
\* The tier an earlier context of this installation wrote its cache to.
BestTier ==
    IF isSessionStorageAvailable THEN "session"
    ELSE IF isChromeStorageAvailable THEN "local" ELSE "none"

\* What the store holds when the contexts start: nothing, or the entry an
\* earlier context saved at SeedTime.
InitialCaches ==
    IF BestTier = "none" THEN {Null}
    ELSE {Null, [status |-> StatusMetered, fetchedAt |-> SeedTime]}

\* The clients as createBillingExtensionsClient returns them.
Created ==
    /\ events = [c \in Clients |-> <<>>]
    /\ currentStatus = [c \in Clients |-> Null]
    /\ statusFetchedAt = [c \in Clients |-> 0]
    /\ handlers = [c \in Clients |-> <<>>]
    /\ unsubscribers = [c \in Clients |-> [h \in Handlers |-> "none"]]
    /\ storageListenerAttached = [c \in Clients |-> env.local]
    /\ task = [c \in Clients |-> [k \in Kinds |-> Idle]]
    /\ refreshInFlight = [c \in Clients |-> NotInFlight]
    /\ swrCheckInFlight = [c \in Clients |-> NoSwr]
    /\ backgroundTracking = [c \in Clients |-> NoTracking]
    /\ ret = NoRet
    /\ dispatch = NoDispatch

\* No function of the library is applied on its own.
NoProbe == [fn |-> "none"]

Init ==
    /\ env \in Envs
    /\ app \in Apps
    /\ now = StartTime
    /\ \E cached \in InitialCaches :
         store = [t \in Tiers |-> [k \in Keys |->
                    IF t = BestTier /\ k = STATUS_CACHE_KEY THEN cached ELSE Null]]
    /\ Created
    /\ budget = [calls |-> MaxCalls, ticks |-> MaxTicks, faults |-> 0]
    /\ autoSync = [c \in Clients |-> AutoInitialized(FALSE)]
    /\ probe = NoProbe

Next ==
    \/ \E d \in Delays : Tick(d)
    \/ \E c \in Clients, force \in BOOLEAN : GetUserFromMemory(c, force)
    \/ \E c \in Clients, force \in BOOLEAN : GetUserLoad(c, force)
    \/ \E c \in Clients, force \in BOOLEAN : GetUserForce(c, force)
    \/ \E c \in Clients : GetUserFromStore(c)
    \/ \E c \in Clients : GetUserMiss(c)
    \/ \E c \in Clients : Refresh(c)
    \/ \E c \in Clients, k \in Kinds, next \in Statuses : FetchOk(c, k, next)
    \/ \E c \in Clients, k \in Kinds : FetchFail(c, k)
    \/ \E c \in Clients : AutoFetchFail(c)
    \/ \E c \in Clients, k \in Kinds : SaveDone(c, k)
    \/ \E c \in Clients : AutoSaveDone(c)
    \/ \E c \in Clients : SwrSkip(c)
    \/ \E c \in Clients : SwrPersist(c)
    \/ \E c \in Clients : SwrRevalidate(c)
    \/ \E c \in Clients : EnableBackgroundStatusTracking(c)
    \/ \E c \in Clients : EnableBackgroundStatusTrackingAgain(c)
    \/ \E c \in Clients, type \in MessageTypes : OnMessage(c, type)
    \/ \E c \in Clients, name \in AlarmNames : OnAlarm(c, name)
    \/ \E c \in Clients, h \in Handlers : OnStatusChanged(c, h)
    \/ \E c \in Clients, h \in Handlers : Unsubscribe(c, h)
    \/ \E c \in Clients : StorageChanged(c)
    \/ \E c \in Clients : StorageChangedIgnored(c)

Spec == Init /\ [][Next]_vars

(***************************************************************************)
(* The AutoSync scheduler on its own: clients created in extension pages   *)
(* and elsewhere, driven through the client ("page") or through the        *)
(* functions of core/autosync.ts called with the state ("module").         *)
(***************************************************************************)
MaxWaits == 2

AutoSyncApps == {"page", "module"}

\* The contexts that may be extension pages; a service worker never is one.
Pages == {"popup"}

InitAutoSync ==
    /\ env = EnvMV3
    /\ app \in AutoSyncApps
    /\ now = StartTime
    /\ store = [t \in Tiers |-> [k \in Keys |-> Null]]
    /\ Created
    /\ budget = [calls |-> MaxCalls, ticks |-> MaxWaits, faults |-> 0]
    /\ \E ui \in BOOLEAN :
         autoSync = [c \in Clients |-> AutoInitialized(ui /\ c \in Pages)]
    /\ probe = NoProbe

NextAutoSync ==
    \/ \E d \in Waits : Elapse(d)
    \/ \E c \in Clients : EnableAutoSync(c)
    \/ \E c \in Clients : DisableAutoSync(c)
    \/ \E c \in Clients : ActivateAutoSync(c)
    \/ \E c \in Clients, event \in TriggerEvents : Trigger(c, event)
    \/ \E c \in Clients : TimerFires(c)
    \/ \E c \in Clients, next \in Statuses : FetchOk(c, "auto", next)
    \/ \E c \in Clients : AutoFetchFail(c)
    \/ \E c \in Clients : AutoSaveDone(c)
    \/ \E c \in Clients : StorageChanged(c)

SpecAutoSync == InitAutoSync /\ [][NextAutoSync]_vars

(***************************************************************************)
(* The handler registry on its own: an application that registers and      *)
(* unsubscribes handlers, more than once, around a refresh.                *)
(***************************************************************************)
MaxSubscriberCalls == 4

InitHandlers ==
    /\ env = EnvMV3
    /\ app = "subscriber"
    /\ now = StartTime
    /\ \E cached \in InitialCaches :
         store = [t \in Tiers |-> [k \in Keys |->
                    IF t = BestTier /\ k = STATUS_CACHE_KEY THEN cached ELSE Null]]
    /\ Created
    /\ budget = [calls |-> MaxSubscriberCalls, ticks |-> 0, faults |-> 0]
    /\ autoSync = [c \in Clients |-> AutoInitialized(FALSE)]
    /\ probe = NoProbe

NextHandlers ==
    \/ \E c \in Clients, h \in Handlers : OnStatusChanged(c, h)
    \/ \E c \in Clients, h \in Handlers : Unsubscribe(c, h)
    \/ \E c \in Clients : Refresh(c)
    \/ \E c \in Clients, next \in Statuses : FetchOk(c, "refresh", next)
    \/ \E c \in Clients : FetchFail(c, "refresh")
    \/ \E c \in Clients : SaveDone(c, "refresh")
    \/ \E c \in Clients : StorageChanged(c)

SpecHandlers == InitHandlers /\ [][NextHandlers]_vars

(***************************************************************************)
(* The change-event listener next to other code of the extension that      *)
(* removes or overwrites the keys of the library.                          *)
(***************************************************************************)
MaxListenerCalls == 3

InitListener ==
    /\ env = EnvMV3
    /\ app = "bystander"
    /\ now = StartTime
    /\ \E cached \in InitialCaches :
         store = [t \in Tiers |-> [k \in Keys |->
                    IF t = BestTier /\ k = STATUS_CACHE_KEY THEN cached ELSE Null]]
    /\ Created
    /\ budget = [calls |-> MaxListenerCalls, ticks |-> 0, faults |-> 0]
    /\ autoSync = [c \in Clients |-> AutoInitialized(FALSE)]
    /\ probe = NoProbe

NextListener ==
    \/ \E c \in Clients, h \in Handlers : OnStatusChanged(c, h)
    \/ \E c \in Clients : Refresh(c)
    \/ \E c \in Clients, next \in Statuses : FetchOk(c, "refresh", next)
    \/ \E c \in Clients : SaveDone(c, "refresh")
    \/ \E key \in Keys : RemoveFromSessionStorage(key)
    \/ \E key \in Keys : SetInSessionStorage(key)
    \/ \E c \in Clients : StorageChanged(c)
    \/ \E c \in Clients : StorageChangedIgnored(c)

SpecListener == InitListener /\ [][NextListener]_vars

(***************************************************************************)
(* The client on a store whose operations may fail (chrome.runtime         *)
(* .lastError) or that is not there at all.                                *)
(***************************************************************************)
MaxProneCalls == 2
MaxStorageFaults == 2

InitFaults ==
    /\ env \in Envs
    /\ app = "prone"
    /\ now = StartTime
    /\ \E cached \in InitialCaches :
         store = [t \in Tiers |-> [k \in Keys |->
                    IF t = BestTier /\ k = STATUS_CACHE_KEY THEN cached ELSE Null]]
    /\ Created
    /\ budget = [calls |-> MaxProneCalls, ticks |-> 0, faults |-> MaxStorageFaults]
    /\ autoSync = [c \in Clients |-> AutoInitialized(FALSE)]
    /\ probe = NoProbe

NextFaults ==
    \/ \E c \in Clients : GetUserFromMemory(c, FALSE)
    \/ \E c \in Clients : GetUserLoad(c, FALSE)
    \/ \E c \in Clients : GetUserFromStore(c)
    \/ \E c \in Clients : GetUserMiss(c)
    \/ \E c \in Clients : Refresh(c)
    \/ \E c \in Clients, k \in Kinds, next \in Statuses : FetchOk(c, k, next)
    \/ \E c \in Clients, k \in Kinds : FetchFail(c, k)
    \/ \E c \in Clients : AutoFetchFail(c)
    \/ \E c \in Clients, k \in Kinds : SaveDone(c, k)
    \/ \E c \in Clients : AutoSaveDone(c)
    \/ \E c \in Clients : SwrSkip(c)
    \/ \E c \in Clients : SwrPersist(c)
    \/ \E c \in Clients : SwrRevalidate(c)
    \/ \E c \in Clients : StorageChanged(c)
    \/ \E c \in Clients : StorageChangedIgnored(c)

SpecFaults == InitFaults /\ [][NextFaults]_vars

(***************************************************************************)
(* Refreshes in two contexts whose saves may fail, with the change-events  *)
(* of the store delivered fairly: an event queued for a context is         *)
(* delivered, and the save a refresh awaits after its fetch settles.       *)
(***************************************************************************)
MaxDeliveryCalls == 3
MaxDeliveryFaults == 2

InitDelivery ==
    /\ env \in {EnvMV3, EnvMV2}
    /\ app = "subscriber"
    /\ now = StartTime
    /\ \E cached \in InitialCaches :
         store = [t \in Tiers |-> [k \in Keys |->
                    IF t = BestTier /\ k = STATUS_CACHE_KEY THEN cached ELSE Null]]
    /\ Created
    /\ budget = [calls |-> MaxDeliveryCalls, ticks |-> 0, faults |-> MaxDeliveryFaults]
    /\ autoSync = [c \in Clients |-> AutoInitialized(FALSE)]
    /\ probe = NoProbe

NextDelivery ==
    \/ \E c \in Clients, h \in Handlers : OnStatusChanged(c, h)
    \/ \E c \in Clients : Refresh(c)
    \/ \E c \in Clients, next \in Statuses : FetchOk(c, "refresh", next)
    \/ \E c \in Clients : FetchFail(c, "refresh")
    \/ \E c \in Clients : SaveDone(c, "refresh")
    \/ \E c \in Clients : StorageChanged(c)

FairDelivery ==
    \A c \in Clients :
        /\ WF_vars(StorageChanged(c))
        /\ WF_vars(SaveDone(c, "refresh"))

SpecDelivery == InitDelivery /\ [][NextDelivery]_vars /\ FairDelivery

(***************************************************************************)
(* core errors: BillingExtensionsError and normalizeError                  *)
(***************************************************************************)
BillingExtensionsErrorType ==
    {"ConfigError", "RuntimeError", "NetworkError", "Unauthorized", "ApiError"}

BillingExtensionsError(type, message) ==
    [class |-> "BillingExtensionsError", name |-> "BillingExtensionsError",
     type |-> type, message |-> message]

createRuntimeError(message) == BillingExtensionsError("RuntimeError", message)
createNetworkError(message) == BillingExtensionsError("NetworkError", message)

\* Messages an Error or a thrown string may carry.
Messages == {"Failed to fetch", "Network request failed", "Tab closed", ""}

\* message.toLowerCase().includes("fetch") || ....includes("network")
MentionsFetchOrNetwork(message) ==
    message \in {"Failed to fetch", "Network request failed"}

\* What the fetch, storage and tab layers may throw: an error of the library,
\* any other Error, a string, or a value that is neither.
Thrown ==
    {BillingExtensionsError(type, "Tab closed") : type \in BillingExtensionsErrorType}
    \cup {[class |-> "Error", name |-> name, message |-> message] :
             name \in {"Error", "AbortError", "TypeError"}, message \in Messages}
    \cup {[class |-> "string", message |-> message] : message \in Messages}
    \cup {[class |-> class] :
             class \in {"object", "circular", "null", "undefined", "number"}}

\* typeof error === "object" ? JSON.stringify(error) : String(error), where a
\* stringification that throws leaves the default message.
Stringified(error) ==
    IF error.class = "circular" THEN "An unknown error occurred" ELSE error.class

\* A thrown value that crosses the boundary as it is.
Rethrown(error) == error

normalizeError(error) ==
    IF error.class = "BillingExtensionsError" THEN error
    ELSE IF error.class = "Error" THEN
        IF error.name = "AbortError" THEN createNetworkError("Request was aborted")
        ELSE IF error.name = "TypeError" /\ MentionsFetchOrNetwork(error.message)
        THEN createNetworkError(error.message)
        ELSE createRuntimeError(IF error.message = ""
                                THEN "An unknown error occurred"
                                ELSE error.message)
    ELSE IF error.class = "string" THEN createRuntimeError(error.message)
    ELSE createRuntimeError(Stringified(error))

\* The public methods that return a promise; each one is
\* try { ... } catch (error) { throw normalizeError(error) }.
Methods == {"getUser", "refresh", "openManageBilling", "getPlans"}

\* A public method whose body throws: the rejection the caller observes.
Rejects(method, error) ==
    /\ probe = [fn |-> "reject", method |-> method, thrown |-> error,
                done |-> FALSE, result |-> Null]
    /\ probe' = [probe EXCEPT !.done = TRUE, !.result = normalizeError(error)]
    /\ UNCHANGED <<env, app, now, store, events, currentStatus, statusFetchedAt>>
    /\ UNCHANGED <<handlers, unsubscribers, storageListenerAttached, task,
                   refreshInFlight>>
    /\ UNCHANGED <<swrCheckInFlight, backgroundTracking, budget, ret, dispatch>>
    /\ UNCHANGED autoSync

(***************************************************************************)
(* Functions of the library applied on their own.                          *)
(***************************************************************************)
MaxFaults == 1

PlanTeam == [PlanPro EXCEPT !.id = "team", !.nickname = "Team"]
UsageMore == [UsageSome EXCEPT !.used = 2]

\* Plans that differ from PlanPro in one compared field each, or in two.
DiffPlans ==
    {PlanPro, PlanTeam,
     [PlanPro EXCEPT !.id = "team"],
     [PlanPro EXCEPT !.nickname = "Team"],
     [PlanPro EXCEPT !.status = "past_due"],
     [PlanPro EXCEPT !.currentPeriodEnd = "2026-02-01"]}

\* Usages that differ from UsageSome in one compared field each.
DiffUsages ==
    {UsageSome, UsageMore,
     [UsageSome EXCEPT !.limit = 20],
     [UsageSome EXCEPT !.resetsAt = "2026-02-01"]}

\* Statuses computeStatusDiff is applied to: either section present or not,
\* and a field that is not compared.
DiffStatuses ==
    {[extensionUserId |-> user, paid |-> paid, plan |-> plan, usage |-> usage] :
        user \in {"u1", "u2"}, paid \in BOOLEAN, plan \in {Null} \cup DiffPlans,
        usage \in {Null} \cup DiffUsages}

Diffs(prev, next) ==
    /\ probe = [fn |-> "computeStatusDiff", prev |-> prev, next |-> next,
                done |-> FALSE, result |-> Null]
    /\ probe' = [probe EXCEPT !.done = TRUE, !.result = computeStatusDiff(prev, next)]
    /\ UNCHANGED <<env, app, now, store, events, currentStatus, statusFetchedAt>>
    /\ UNCHANGED <<handlers, unsubscribers, storageListenerAttached, task,
                   refreshInFlight>>
    /\ UNCHANGED <<swrCheckInFlight, backgroundTracking, budget, ret, dispatch>>
    /\ UNCHANGED autoSync

\* What either tier may hold under a key: nothing, or an entry of its own.
Held(tier) ==
    {Null, [status |-> IF tier = "session" THEN StatusMetered ELSE StatusFree,
            fetchedAt |-> SeedTime]}

\* Every combination of the two tiers being there.
StorageEnvs == {[EnvMV3 EXCEPT !.session = s, !.local = l] : s, l \in BOOLEAN}

BestStorageGet(key) ==
    /\ probe = [fn |-> "getFromBestStorage", key |-> key, done |-> FALSE,
                result |-> Null, fault |-> 0]
    /\ \E out \in getFromBestStorage(key) :
         /\ probe' = [probe EXCEPT !.done = TRUE, !.result = out[1], !.fault = out[2]]
         /\ budget' = Spend(0, out[2])
    /\ UNCHANGED <<env, app, now, store, events, currentStatus, statusFetchedAt>>
    /\ UNCHANGED <<handlers, unsubscribers, storageListenerAttached, task,
                   refreshInFlight>>
    /\ UNCHANGED <<swrCheckInFlight, backgroundTracking, ret, dispatch, autoSync>>

BestStorageSet(key, value) ==
    /\ probe = [fn |-> "setInBestStorage", key |-> key, value |-> value,
                done |-> FALSE, result |-> "pending", fault |-> 0]
    /\ \E out \in setInBestStorage(key) :
         /\ probe' = [probe EXCEPT !.done = TRUE, !.result = out[1], !.fault = out[2]]
         /\ budget' = Spend(0, out[2])
         /\ store' = IF out[1] \in Tiers THEN StoreAfter(out[1], key, value) ELSE store
         /\ events' = IF out[1] \in Tiers THEN EventsAfter(out[1], key, value)
                      ELSE events
    /\ UNCHANGED <<env, app, now, currentStatus, statusFetchedAt>>
    /\ UNCHANGED <<handlers, unsubscribers, storageListenerAttached, task,
                   refreshInFlight>>
    /\ UNCHANGED <<swrCheckInFlight, backgroundTracking, ret, dispatch, autoSync>>

\* await setInBestStorage(key, value) by a caller that reads the key afterwards.
SetThenGetWrite(key, value) ==
    /\ probe.fn = "setThenGet"
    /\ probe.phase = "set"
    /\ \E out \in setInBestStorage(key) :
         /\ probe' = [probe EXCEPT !.phase = "get", !.tier = out[1]]
         /\ budget' = Spend(0, out[2])
         /\ store' = StoreAfter(out[1], key, value)
         /\ events' = EventsAfter(out[1], key, value)
    /\ UNCHANGED <<env, app, now, currentStatus, statusFetchedAt>>
    /\ UNCHANGED <<handlers, unsubscribers, storageListenerAttached, task,
                   refreshInFlight>>
    /\ UNCHANGED <<swrCheckInFlight, backgroundTracking, ret, dispatch, autoSync>>

\* await getFromBestStorage(key) after the write has resolved.
SetThenGetRead(key) ==
    /\ probe.fn = "setThenGet"
    /\ probe.phase = "get"
    /\ \E out \in getFromBestStorage(key) :
         /\ probe' = [probe EXCEPT !.phase = "done", !.result = out[1]]
         /\ budget' = Spend(0, out[2])
    /\ UNCHANGED <<env, app, now, store, events, currentStatus, statusFetchedAt>>
    /\ UNCHANGED <<handlers, unsubscribers, storageListenerAttached, task,
                   refreshInFlight>>
    /\ UNCHANGED <<swrCheckInFlight, backgroundTracking, ret, dispatch, autoSync>>

Inputs ==
    {[fn |-> "reject", method |-> method, thrown |-> error,
      done |-> FALSE, result |-> Null] : method \in Methods, error \in Thrown}
    \cup {[fn |-> "computeStatusDiff", prev |-> prev, next |-> next,
           done |-> FALSE, result |-> Null] :
             prev \in DiffStatuses \cup {Null}, next \in DiffStatuses}
    \cup {[fn |-> "getFromBestStorage", key |-> key, done |-> FALSE,
           result |-> Null, fault |-> 0] : key \in Keys}
    \cup {[fn |-> "setInBestStorage", key |-> key, value |-> value,
           done |-> FALSE, result |-> "pending", fault |-> 0] :
             key \in Keys, value \in {CachedStatus(StatusFree)}}
    \cup {[fn |-> "setThenGet", key |-> key, value |-> value, phase |-> "set",
           tier |-> "pending", result |-> Null] :
             key \in Keys, value \in {CachedStatus(StatusFree)}}

OnStorage(input) ==
    input.fn \in {"getFromBestStorage", "setInBestStorage", "setThenGet"}

InitLibrary ==
    /\ now = StartTime
    /\ probe \in Inputs
    /\ env \in IF OnStorage(probe) THEN StorageEnvs ELSE {EnvMV3}
    /\ app = "library"
    /\ \E session \in Held("session"), local \in Held("local") :
         /\ ~OnStorage(probe) => session = Null /\ local = Null
         /\ store = [t \in Tiers |-> [k \in Keys |->
                       IF t = "session" THEN session ELSE local]]
    /\ Created
    /\ \E faults \in 0..MaxFaults :
         /\ ~OnStorage(probe) => faults = 0
         /\ budget = [calls |-> 0, ticks |-> 0, faults |-> faults]
    /\ autoSync = [c \in Clients |-> AutoInitialized(FALSE)]

\* The function the input names is applied to it.
NextLibrary ==
    \/ probe.fn = "reject" /\ Rejects(probe.method, probe.thrown)
    \/ probe.fn = "computeStatusDiff" /\ Diffs(probe.prev, probe.next)
    \/ probe.fn = "getFromBestStorage" /\ BestStorageGet(probe.key)
    \/ probe.fn = "setInBestStorage" /\ BestStorageSet(probe.key, probe.value)
    \/ probe.fn = "setThenGet" /\ SetThenGetWrite(probe.key, probe.value)
    \/ probe.fn = "setThenGet" /\ SetThenGetRead(probe.key)

SpecLibrary == InitLibrary /\ [][NextLibrary]_vars

(***************************************************************************)
(* Properties.                                                             *)
(***************************************************************************)
\* The fields computeStatusDiff compares, one by one.
SameComparedFields(a, b) ==
    /\ a.paid = b.paid
    /\ (a.plan = Null) = (b.plan = Null)
    /\ a.plan # Null /\ b.plan # Null =>
          /\ a.plan.id = b.plan.id
          /\ a.plan.nickname = b.plan.nickname
          /\ a.plan.status = b.plan.status
          /\ a.plan.currentPeriodEnd = b.plan.currentPeriodEnd
    /\ (a.usage = Null) = (b.usage = Null)
    /\ a.usage # Null /\ b.usage # Null =>
          /\ a.usage.used = b.usage.used
          /\ a.usage.limit = b.usage.limit
          /\ a.usage.resetsAt = b.usage.resetsAt

\* The last step delivered a change-event that carries a status to replace an
\* earlier one.
StatusReplaced ==
    /\ dispatch.via = "onChanged"
    /\ CarriesStatus(dispatch.event)
    /\ dispatch.event.oldValue # Null

\* C1: for one client, the autoSyncRefresh() calls made while an earlier one
\* has not settled all share one status fetch: while a refresh is in flight the
\* request layer has received exactly one call for the whole group of callers,
\* and no request is counted when none is in flight.
C1_SingleFetchPerGroup ==
    \A c \in Clients :
        IF refreshInFlight[c].set
        THEN /\ refreshInFlight[c].requests = 1
             /\ refreshInFlight[c].calls >= 1
             /\ task[c]["auto"].pc \in {"fetch", "save"}
             /\ task[c]["auto"].fetches = 1
        ELSE /\ refreshInFlight[c].requests = 0
             /\ refreshInFlight[c].calls = 0
             /\ task[c]["auto"].pc = "idle"

C1_Witness ==
    \E c \in Clients : refreshInFlight[c].set /\ refreshInFlight[c].calls >= 3

\* C2: when a context is delivered a change-event on the status-cache key whose
\* old status A and new status B differ in a compared field, every handler
\* registered in that context is called exactly once with
\* (B, A, computeStatusDiff(A, B)) and the context's currentStatus becomes B.
C2_ChangeEventNotifiesEveryHandler ==
    (StatusReplaced /\ ~SameComparedFields(dispatch.event.oldValue.status,
                                           dispatch.event.newValue.status)) =>
        LET A == dispatch.event.oldValue.status
            B == dispatch.event.newValue.status
            registered == handlers[dispatch.ctx]
        IN  /\ Len(dispatch.calls) = Len(registered)
            /\ \A i \in 1..Len(registered) :
                  dispatch.calls[i] = [handler |-> registered[i], next |-> B,
                                       prev |-> A, diff |-> computeStatusDiff(A, B)]
            /\ \A h \in Handlers :
                  Cardinality({i \in 1..Len(dispatch.calls) : dispatch.calls[i].handler = h})
                    = IF \E i \in 1..Len(registered) : registered[i] = h THEN 1 ELSE 0
            /\ currentStatus[dispatch.ctx] = B

C2_Witness ==
    /\ StatusReplaced
    /\ dispatch.event.oldValue.status.paid # dispatch.event.newValue.status.paid
    /\ Len(dispatch.calls) = 2
    /\ dispatch.calls[1].diff.entitlementChanged

C4_EqualStatusCallsNoHandler ==
    (StatusReplaced /\ SameComparedFields(dispatch.event.oldValue.status,
                                          dispatch.event.newValue.status)) =>
        dispatch.calls = <<>>

C4_Witness ==
    /\ StatusReplaced
    /\ SameComparedFields(dispatch.event.oldValue.status, dispatch.event.newValue.status)
    /\ dispatch.event.oldValue.fetchedAt # dispatch.event.newValue.fetchedAt
    /\ handlers[dispatch.ctx] # <<>>
    /\ currentStatus[dispatch.ctx] = dispatch.event.newValue.status

\* C5: getUser() without forceRefresh that returns without a network fetch
\* returns a status fetched at most 30000 ms ago, whichever tier serves it.
C5_CachedStatusNotStale ==
    (ret.op = "getUser" /\ ~ret.force /\ ret.ok /\ ret.fetches = 0) =>
        ret.issuedAt - ret.fetchedAt <= 30000

\* C6: getUser() that finds no status in memory and no entry in the persisted
\* cache makes exactly one network fetch; when it succeeds it returns the
\* fetched status, the persisted entry is {that status, the clock value at the
\* write} and, no other refresh or change-event of the context having come in
\* between, currentStatus is that status.
C6_EmptyCachesFetchOnce ==
    (ret.op = "getUser" /\ ~ret.force /\ ~ret.held /\ ret.load = "absent") =>
        /\ ret.fetches = 1
        /\ ret.hit = "none"
        /\ ret.ok =>
              /\ ret.value \in Statuses
              /\ ret.saved = BestTier
              /\ store[ret.saved][STATUS_CACHE_KEY] =
                    [status |-> ret.value, fetchedAt |-> ret.issuedAt]
              /\ ret.alone => currentStatus[ret.ctx] = ret.value

C6_Witness ==
    /\ ret.op = "getUser" /\ ~ret.force /\ ~ret.held /\ ret.load = "absent"
    /\ ret.ok /\ ret.alone
    /\ currentStatus[ret.ctx] = ret.value

\* C7: with no status in memory, getUser() treats the persisted entry it reads
\* as stale exactly when its age exceeds 30000 ms: a stale entry makes it
\* fetch, an entry of age 30000 ms or less is returned with no fetch.
C7_StaleExactlyPastTtl ==
    /\ (ret.op = "getUser" /\ ret.load \in {"usable", "stale"}) =>
          /\ ~ret.held
          /\ (ret.load = "stale") = (ret.readAge > 30000)
          /\ ret.load = "usable" => ret.hit = "store" /\ ret.fetches = 0 /\ ret.ok
          /\ ret.load = "stale" => ret.hit = "none" /\ ret.fetches = 1
    /\ \A c \in Clients :
          task[c]["getUser"].load = "stale" =>
              /\ task[c]["getUser"].readAge > 30000
              /\ task[c]["getUser"].pc \in {"fetch", "save"}

C7_Witness ==
    /\ ret.op = "getUser" /\ ret.load = "stale" /\ ret.readAge = 31000
    /\ ret.ok /\ ret.fetches = 1

\* C8: getUser({forceRefresh: true}) always makes a network fetch and returns
\* what it fetched, whatever memory and the persisted cache hold; it reads
\* neither tier.
C8_ForceRefreshAlwaysFetches ==
    /\ (ret.op = "getUser" /\ ret.force) =>
          /\ ret.fetches = 1
          /\ ret.hit = "none"
          /\ ret.load = "skipped"
          /\ ret.ok => store[ret.saved][STATUS_CACHE_KEY].status = ret.value
    /\ \A c \in Clients :
          (task[c]["getUser"].pc # "idle" /\ task[c]["getUser"].force) =>
              /\ task[c]["getUser"].pc \in {"fetch", "save"}
              /\ task[c]["getUser"].fetches = 1

C8_Witness ==
    /\ ret.op = "getUser" /\ ret.force /\ ret.ok /\ ret.held
    /\ ret.fetches = 1

\* C9 as stated: every getUser() served from memory or from the persisted
\* cache with a paid status calls schedulePaidSWRRevalidate.
C9_EveryPaidHitRevalidates ==
    (ret.op = "getUser" /\ ret.hit \in {"memory", "store"} /\ ret.value.paid) =>
        ret.swr

\* C9: every getUser() served from the persisted cache with a paid status calls
\* schedulePaidSWRRevalidate, so that a check is in flight when it returns; a
\* getUser() served from memory does not call it.
C9_PaidPersistedHitRevalidates ==
    /\ (ret.op = "getUser" /\ ret.hit = "store" /\ ret.value.paid) =>
          ret.swr /\ swrCheckInFlight[ret.ctx].pc # "idle"
    /\ (ret.op = "getUser" /\ ret.hit = "memory") => ~ret.swr

C9_Witness ==
    /\ ret.op = "getUser" /\ ret.hit = "store" /\ ret.value.paid
    /\ swrCheckInFlight[ret.ctx].pc = "read"

\* C10 as stated: after any number of calls of enableBackgroundStatusTracking
\* exactly one message listener and at most one alarm handler are registered,
\* the alarm was created once at most and one warm-up refresh was made.
C10_ExactlyOneMessageListener ==
    \A c \in Clients :
        backgroundTracking[c].calls >= 1 =>
            /\ backgroundTracking[c].messageListeners = 1
            /\ backgroundTracking[c].alarmListeners <= 1
            /\ backgroundTracking[c].alarmsCreated <= 1
            /\ backgroundTracking[c].warmups = 1

\* C10: after any number of calls of enableBackgroundStatusTracking one message
\* listener is registered where chrome.runtime.onMessage exists and none where
\* it does not, one alarm handler and one alarm creation where chrome.alarms
\* exists and none where it does not, and one warm-up refresh was made: the
\* calls after the first change nothing.
C10_EnableIsIdempotent ==
    \A c \in Clients :
        LET b == backgroundTracking[c]
        IN  IF b.calls >= 1
            THEN /\ b.enabled
                 /\ b.messageListeners = IF env.onMessage THEN 1 ELSE 0
                 /\ b.messageListenerAttached = env.onMessage
                 /\ b.alarmListeners = IF env.alarms THEN 1 ELSE 0
                 /\ b.alarmListenerAttached = env.alarms
                 /\ b.alarmsCreated = IF env.alarms THEN 1 ELSE 0
                 /\ b.warmups = 1
            ELSE b = NoTracking

C10_Witness ==
    \E c \in Clients :
        /\ backgroundTracking[c].calls >= 2
        /\ backgroundTracking[c].messageListeners = 1
        /\ backgroundTracking[c].alarmListeners = 1

\* C11: in a context that is not an extension page, however often
\* activateAutoSync, enableAutoSync and disableAutoSync are called, AutoSync
\* stays inactive: no listener is attached, no timer is set and no refresh is
\* executed by the scheduler.
C11_InactiveOutsideExtensionPages ==
    \A c \in Clients :
        ~autoSync[c].ui =>
            /\ ~autoSync[c].state.activated
            /\ autoSync[c].state.cleanup = Null
            /\ autoSync[c].state.debounceTimer = 0
            /\ autoSync[c].listeners = Null
            /\ autoSync[c].timers = {}
            /\ autoSync[c].executed = <<>>

C11_Witness ==
    \E c \in Clients :
        /\ app = "module"
        /\ ~autoSync[c].ui
        /\ autoSync[c].attempts >= 3
        /\ autoSync[c].state.enabled

\* C12: a client created in an extension page activates AutoSync without any
\* enableAutoSync call: as long as AutoSync was not disabled the state is
\* active and the listeners are attached, and before any time has passed the
\* initial refresh is scheduled.
C12_ActiveAfterConstruction ==
    \A c \in Clients :
        (app = "page" /\ autoSync[c].ui /\ autoSync[c].state.enabled) =>
            /\ autoSync[c].state.activated
            /\ autoSync[c].listeners # Null
            /\ now = StartTime => autoSync[c].timers # {}

C16_RejectionsAreTyped ==
    (probe.fn = "reject" /\ probe.done) =>
        /\ probe.result.class = "BillingExtensionsError"
        /\ probe.result.type \in BillingExtensionsErrorType
        /\ probe.thrown.class = "BillingExtensionsError" => probe.result = probe.thrown

C16_Witness ==
    /\ probe.fn = "reject"
    /\ probe.done
    /\ probe.method = "openManageBilling"
    /\ probe.thrown.class = "circular"
    /\ probe.result.type = "RuntimeError"

\* C17: when a handler registered in a context throws in the delivery of a
\* change-event, every handler registered in the context is still called, in
\* its turn, the context's currentStatus is the new status, and no exception
\* leaves the listener, the registration or the refresh.
C17_ThrowingHandlerIsContained ==
    /\ ~dispatch.threw
    /\ (/\ dispatch.via = "onChanged"
        /\ CarriesStatus(dispatch.event)
        /\ \E i \in 1..Len(handlers[dispatch.ctx]) :
              handlers[dispatch.ctx][i] \in Throwing
        /\ hasAnyChange(computeStatusDiff(PrevOf(dispatch.ctx, dispatch.event),
                                          dispatch.event.newValue.status))) =>
          /\ Len(dispatch.calls) = Len(handlers[dispatch.ctx])
          /\ \A i \in 1..Len(dispatch.calls) :
                dispatch.calls[i].handler = handlers[dispatch.ctx][i]
          /\ currentStatus[dispatch.ctx] = dispatch.event.newValue.status

C17_Witness ==
    /\ dispatch.via = "onChanged"
    /\ handlers[dispatch.ctx] = <<"h1", "h2">>
    /\ "h1" \in Throwing
    /\ Len(dispatch.calls) = 2
    /\ dispatch.calls[2].handler = "h2"
    /\ currentStatus[dispatch.ctx] = dispatch.event.newValue.status

\* The handlers of c in the order of their registration: a handler that
\* registers goes behind those registered before it, and nothing else moves a
\* handler.
KeepsRegistrationOrder(c) ==
    \/ handlers'[c] = handlers[c]
    \/ \E h \in Handlers :
         /\ \A i \in 1..Len(handlers[c]) : handlers[c][i] # h
         /\ handlers'[c] = Append(handlers[c], h)
    \/ \E h \in Handlers : handlers'[c] = SelectSeq(handlers[c], LAMBDA x : x # h)

\* C18: handlers[c] lists the handlers of c in the order of their registration,
\* without those unsubscribed, and every delivery of a change-event calls the
\* handlers in that order.
C18_CalledInRegistrationOrder ==
    /\ [][\A c \in Clients : KeepsRegistrationOrder(c)]_vars
    /\ [](dispatch.via = "onChanged" =>
            /\ Len(dispatch.calls) <= Len(handlers[dispatch.ctx])
            /\ \A i \in 1..Len(dispatch.calls) :
                  dispatch.calls[i].handler = handlers[dispatch.ctx][i])

C18_Witness ==
    /\ dispatch.via = "onChanged"
    /\ Len(dispatch.calls) = 2
    /\ dispatch.calls[1].handler = "h2"
    /\ dispatch.calls[2].handler = "h1"

\* C19: getFromBestStorage and setInBestStorage never reject, whichever tiers
\* are there and whichever of them fail: a read resolves to the session value
\* when the session tier is there and does not fail, to the local value or to
\* absent otherwise; a write goes to the session tier when it is there and
\* does not fail, and to the local tier or nowhere otherwise.
C19_BestStorageNeverFails ==
    /\ (probe.fn = "getFromBestStorage" /\ probe.done) =>
          /\ probe.result # Rejected
          /\ IF env.session /\ probe.fault = 0
             THEN probe.result = store["session"][probe.key]
             ELSE probe.result \in {store["local"][probe.key], Null}
          /\ ~env.session /\ env.local /\ probe.fault = 0 =>
                probe.result = store["local"][probe.key]
          /\ ~env.local => probe.result \in {store["session"][probe.key], Null}
    /\ (probe.fn = "setInBestStorage" /\ probe.done) =>
          /\ probe.result \in Tiers \cup {"none"}
          /\ probe.result \in Tiers => store[probe.result][probe.key] = probe.value
          /\ env.session /\ probe.fault = 0 => probe.result = "session"
          /\ probe.result = "local" => env.local /\ (~env.session \/ probe.fault = 1)
          /\ ~env.session /\ env.local /\ probe.fault = 0 => probe.result = "local"

C19_Witness ==
    /\ probe.fn = "getFromBestStorage"
    /\ probe.done
    /\ env.session
    /\ env.local
    /\ probe.fault = 1
    /\ probe.result # Null
    /\ probe.result = store["local"][probe.key]
    /\ store["session"][probe.key] # Null

\* C20: computeStatusDiff(absent, next) has entitlementChanged true,
\* planChanged true exactly when next has a plan, and usageChanged true exactly
\* when next has a usage.
C20_FirstObservationDiff ==
    (probe.fn = "computeStatusDiff" /\ probe.done /\ probe.prev = Null) =>
        /\ probe.result.entitlementChanged
        /\ probe.result.planChanged = (probe.next.plan # Null)
        /\ probe.result.usageChanged = (probe.next.usage # Null)

C20_Witness ==
    /\ probe.fn = "computeStatusDiff"
    /\ probe.done
    /\ probe.prev = Null
    /\ ~probe.next.paid
    /\ probe.next.plan = Null
    /\ probe.next.usage # Null
    /\ probe.result = [entitlementChanged |-> TRUE, planChanged |-> FALSE,
                       usageChanged |-> TRUE]

\* C21: for statuses prev and next equal on every compared field,
\* hasAnyChange(computeStatusDiff(prev, next)) is false and areStatusesEqual is
\* true; computeStatusDiff(s, s) reports no change.
C21_EqualStatusesDoNotDiffer ==
    (/\ probe.fn = "computeStatusDiff"
     /\ probe.done
     /\ probe.prev # Null
     /\ SameComparedFields(probe.prev, probe.next)) =>
        /\ ~hasAnyChange(probe.result)
        /\ probe.result = [entitlementChanged |-> FALSE, planChanged |-> FALSE,
                           usageChanged |-> FALSE]
        /\ areStatusesEqual(probe.prev, probe.next)

C21_Witness ==
    /\ probe.fn = "computeStatusDiff"
    /\ probe.done
    /\ probe.prev # Null
    /\ probe.prev # probe.next
    /\ probe.prev.plan # Null
    /\ probe.prev.usage # Null
    /\ SameComparedFields(probe.prev, probe.next)
    /\ ~hasAnyChange(probe.result)

\* The compared fields of a plan and of a usage.
PlanFields == {"id", "nickname", "status", "currentPeriodEnd"}
UsageFields == {"used", "limit", "resetsAt"}

\* The policy of one section: unchanged when absent on both sides, changed
\* when absent on one, and otherwise changed exactly when a field differs.
SectionChanged(a, b, fields) ==
    IF a = Null /\ b = Null THEN FALSE
    ELSE IF a = Null \/ b = Null THEN TRUE
    ELSE \E f \in fields : a[f] # b[f]

\* C22: for present prev and next, entitlementChanged is prev.paid # next.paid,
\* planChanged follows the section policy over id, nickname, status and
\* currentPeriodEnd, and usageChanged follows it over used, limit and
\* resetsAt; each flag is a function of its own section.
C22_DiffFollowsSectionPolicy ==
    (probe.fn = "computeStatusDiff" /\ probe.done /\ probe.prev # Null) =>
        /\ probe.result.entitlementChanged = (probe.prev.paid # probe.next.paid)
        /\ probe.result.planChanged =
              SectionChanged(probe.prev.plan, probe.next.plan, PlanFields)
        /\ probe.result.usageChanged =
              SectionChanged(probe.prev.usage, probe.next.usage, UsageFields)

C22_Witness ==
    /\ probe.fn = "computeStatusDiff"
    /\ probe.done
    /\ probe.prev # Null
    /\ probe.prev.paid = probe.next.paid
    /\ probe.prev.plan = probe.next.plan
    /\ probe.prev.usage # Null
    /\ probe.next.usage # Null
    /\ probe.prev.usage.used = probe.next.usage.used
    /\ probe.prev.usage.limit # probe.next.usage.limit
    /\ probe.result = [entitlementChanged |-> FALSE, planChanged |-> FALSE,
                       usageChanged |-> TRUE]

\* The last step was a call of the unsubscribe function of h in context c.
Unsubscribed(c, h) ==
    dispatch.via = "unsubscribe" /\ dispatch.ctx = c /\ dispatch.handler = h

\* The last step called h in context c.
CalledIn(c, h) ==
    dispatch.ctx = c /\ \E i \in 1..Len(dispatch.calls) : dispatch.calls[i].handler = h

\* h is registered in context c.
Registered(c, h) == \E i \in 1..Len(handlers[c]) : handlers[c][i] = h

\* C23 as stated: once the unsubscribe function of a handler has been called,
\* no change-event delivered to that context calls the handler again.
C23_NeverCalledAfterUnsubscribe ==
    \A c \in Clients, h \in Handlers :
        unsubscribers[c][h] = "called" =>
            ~(dispatch.via = "onChanged" /\ CalledIn(c, h))

\* C23: a call of the unsubscribe function of h removes h from the handlers of
\* its context and leaves every other handler in its place; a call when h is
\* not registered changes nothing; and a handler is called only while it is
\* registered, so that h is not called again unless onStatusChanged(h)
\* registers the same function again.
C23_UnsubscribeRemovesHandler ==
    /\ [][\A c \in Clients, h \in Handlers :
            Unsubscribed(c, h)' =>
                /\ ~Registered(c, h)'
                /\ handlers'[c] = SelectSeq(handlers[c], LAMBDA x : x # h)
                /\ ~Registered(c, h) => handlers' = handlers
                /\ \A other \in Clients \ {c} : handlers'[other] = handlers[other]]_vars
    /\ [](\A c \in Clients, h \in Handlers : CalledIn(c, h) => Registered(c, h))

C23_Witness ==
    /\ Unsubscribed("popup", "h1")
    /\ handlers["popup"] = <<"h2">>
    /\ budget.calls = 1

\* C24: the in-flight marker of autoSyncRefresh is set exactly while its
\* doRefresh has not settled, whether that ends in success or in failure;
\* autoSyncRefresh resolves in both cases; and a call made while no refresh is
\* in flight starts a new fetch.
C24_MarkerClearedOnEverySettle ==
    /\ [](\A c \in Clients :
            /\ refreshInFlight[c].set = (task[c]["auto"].pc # "idle")
            /\ ~refreshInFlight[c].set => refreshInFlight[c] = NotInFlight)
    /\ [](ret.op = "autoSyncRefresh" => ret.ok /\ ~refreshInFlight[ret.ctx].set)
    /\ [][\A c \in Clients :
            (~refreshInFlight[c].set /\ refreshInFlight'[c].calls > 0) =>
                /\ task'[c]["auto"].pc = "fetch"
                /\ refreshInFlight'[c] = [set |-> TRUE, calls |-> 1, requests |-> 1]]_vars

C24_Witness ==
    /\ ret.op = "autoSyncRefresh"
    /\ ret.value = Null
    /\ ~refreshInFlight[ret.ctx].set
    /\ task[ret.ctx]["auto"].pc = "idle"
    /\ budget.calls > 0

\* What a read of the store resolves to when no storage operation fails.
Persisted(key) ==
    IF env.session THEN store["session"][key]
    ELSE IF env.local THEN store["local"][key] ELSE Null

\* The time since the cooldown timestamp in the store; the whole time when
\* none is stored.
SinceLastSwr ==
    IF Persisted(LAST_SWR_AT_KEY) = Null THEN now
    ELSE now - Persisted(LAST_SWR_AT_KEY).at

\* C25: when the SWR check of a paid persisted hit reads the cooldown
\* timestamp, then with less than SWR_COOLDOWN_MS elapsed since that timestamp
\* the check ends: no fetch is started and the store is not written; with
\* SWR_COOLDOWN_MS or more elapsed, or no timestamp stored, it goes on to write
\* the timestamp and then calls autoSyncRefresh.
C25_CooldownGate ==
    [][\A c \in Clients :
         /\ (swrCheckInFlight[c].pc = "read" /\ swrCheckInFlight'[c].pc # "read") =>
               IF SinceLastSwr < SWR_COOLDOWN_MS
               THEN /\ swrCheckInFlight'[c] = NoSwr
                    /\ store' = store
                    /\ refreshInFlight' = refreshInFlight
                    /\ task'[c]["auto"] = task[c]["auto"]
               ELSE swrCheckInFlight'[c] = [pc |-> "write", at |-> now]
         /\ (swrCheckInFlight[c].pc = "write" /\ swrCheckInFlight'[c].pc # "write") =>
               /\ swrCheckInFlight'[c].pc = "refresh"
               /\ refreshInFlight'[c].set
               /\ task'[c]["auto"].pc # "idle"]_vars

C25_Witness ==
    /\ ret.op = "swrSkip"
    /\ ret.readAge = SWR_COOLDOWN_MS - 1000
    /\ \A c \in Clients : ~refreshInFlight[c].set

\* The cooldown has elapsed to the millisecond and the check goes on.
C25_WitnessElapsed ==
    \E c \in Clients :
        /\ swrCheckInFlight[c].pc = "write"
        /\ Persisted(LAST_SWR_AT_KEY) # Null
        /\ SinceLastSwr = SWR_COOLDOWN_MS

\* C26: in every SWR revalidation the cooldown timestamp of the check is in
\* the store when its autoSyncRefresh is called, and a timestamp stays in the
\* store for as long as the check awaits its refresh.
C26_TimestampWrittenBeforeFetch ==
    /\ [][\A c \in Clients :
            (swrCheckInFlight[c].pc # "refresh" /\ swrCheckInFlight'[c].pc = "refresh") =>
                /\ swrCheckInFlight[c].pc = "write"
                /\ Persisted(LAST_SWR_AT_KEY)' = [at |-> swrCheckInFlight[c].at]]_vars
    /\ [](\A c \in Clients :
            swrCheckInFlight[c].pc = "refresh" =>
                /\ Persisted(LAST_SWR_AT_KEY) # Null
                /\ refreshInFlight[c].set)

C26_Witness ==
    \E c \in Clients :
        /\ swrCheckInFlight[c].pc = "refresh"
        /\ task[c]["auto"].pc = "fetch"
        /\ refreshInFlight[c].requests = 1
        /\ Persisted(LAST_SWR_AT_KEY) = [at |-> swrCheckInFlight[c].at]
        /\ swrCheckInFlight[c].at > StartTime

\* The SWR check of c has issued a revalidation fetch that has not settled.
Revalidating(c) ==
    /\ swrCheckInFlight[c].pc = "refresh"
    /\ task[c]["auto"].pc = "fetch"

\* C27: at most one SWR revalidation fetch is issued per cooldown window: two
\* contexts that share the store never both have a revalidation fetch
\* outstanding whose checks were made less than SWR_COOLDOWN_MS apart.
C27_OneRevalidationPerWindow ==
    \A c1, c2 \in Clients :
        (c1 # c2 /\ Revalidating(c1) /\ Revalidating(c2)) =>
            \/ swrCheckInFlight[c1].at - swrCheckInFlight[c2].at >= SWR_COOLDOWN_MS
            \/ swrCheckInFlight[c2].at - swrCheckInFlight[c1].at >= SWR_COOLDOWN_MS

Quiescent ==
    \A c \in Clients :
        /\ \A k \in Kinds : task[c][k].pc = "idle"
        /\ ~refreshInFlight[c].set
        /\ swrCheckInFlight[c].pc = "idle"
        /\ events[c] = <<>>

\* C29: in every quiescent state, store operations having succeeded, the
\* currentStatus of each client is empty or is the status of the persisted
\* cache entry.
C29_MemoryIsACacheOfTheStore ==
    Quiescent =>
        \A c \in Clients :
            \/ currentStatus[c] = Null
            \/ /\ Persisted(STATUS_CACHE_KEY) # Null
               /\ currentStatus[c] = Persisted(STATUS_CACHE_KEY).status

C29_Witness ==
    /\ Quiescent
    /\ budget.calls = MaxCalls - 1
    /\ Persisted(STATUS_CACHE_KEY) # Null
    /\ Persisted(STATUS_CACHE_KEY).status = StatusFree
    /\ \A c \in Clients : currentStatus[c] = StatusFree

\* The previous status an event carries.
PayloadPrev(ev) == IF ev.oldValue = Null THEN Null ELSE ev.oldValue.status

\* C30: what a context passes to its handlers for a change-event that carries
\* a status, and whether it calls them at all, is a function of the event's
\* oldValue.status and newValue.status, whatever currentStatus the context
\* held when the event was delivered.
C30_DiffFromPayloadAlone ==
    (dispatch.via = "onChanged" /\ CarriesStatus(dispatch.event)) =>
        LET prev == PayloadPrev(dispatch.event)
            next == dispatch.event.newValue.status
            diff == computeStatusDiff(prev, next)
            suppressed == prev # Null /\ ~hasAnyChange(diff)
        IN  /\ Len(dispatch.calls) =
                  IF suppressed THEN 0 ELSE Len(handlers[dispatch.ctx])
            /\ \A i \in 1..Len(dispatch.calls) :
                  /\ dispatch.calls[i].prev = prev
                  /\ dispatch.calls[i].next = next
                  /\ dispatch.calls[i].diff = diff

C30_Witness ==
    /\ dispatch.via = "onChanged"
    /\ CarriesStatus(dispatch.event)
    /\ dispatch.calls # <<>>
    /\ dispatch.memory # Null
    /\ PayloadPrev(dispatch.event) # Null
    /\ dispatch.memory # PayloadPrev(dispatch.event)
    /\ dispatch.calls[1].prev = PayloadPrev(dispatch.event)
    /\ \E c \in Clients \ {dispatch.ctx} :
          /\ events[c] # <<>>
          /\ Head(events[c]) = dispatch.event
          /\ currentStatus[c] # dispatch.memory

\* C37: a getFromBestStorage(k) that follows a resolved setInBestStorage(k, v),
\* no other write of k in between, returns v or nothing: never a value k held
\* before the write, whichever tier operations failed.
C37_ReadYourWrites ==
    (probe.fn = "setThenGet" /\ probe.phase = "done") =>
        probe.result \in {probe.value, Null}

\* C35: every handler call handler(next, prev, diff) made by any step carries
\* the diff computed from the pair passed with it, diff =
\* computeStatusDiff(prev, next); so with prev absent diff.usageChanged is true
\* exactly when next.usage is present.
C35_DiffIsComputedFromThePair ==
    \A i \in 1..Len(dispatch.calls) :
        LET call == dispatch.calls[i]
        IN  /\ call.diff = computeStatusDiff(call.prev, call.next)
            /\ call.prev = Null => (call.diff.usageChanged <=> call.next.usage # Null)

\* C36: no handler is called twice in a row with statuses equal on all compared
\* fields: when two successive steps of one context both call a handler, and
\* they are not two registrations of it by the application, the statuses they
\* pass to it as next differ in a compared field.
C36_NeverNotifiedTwiceOfOneStatus ==
    [][\A i \in 1..Len(dispatch.calls), j \in 1..Len(dispatch'.calls) :
          (/\ dispatch.ctx = dispatch'.ctx
           /\ dispatch.calls[i].handler = dispatch'.calls[j].handler
           /\ ~(dispatch.via = "onStatusChanged" /\ dispatch'.via = "onStatusChanged")) =>
              ~SameComparedFields(dispatch.calls[i].next, dispatch'.calls[j].next)]_vars

\* The last step was the failure of the status fetch of a doRefresh, called
\* from getUser(), refresh() or autoSyncRefresh().
FetchFailed ==
    \/ ret.op \in {"getUser", "refresh"} /\ ~ret.ok
    \/ ret.op = "autoSyncRefresh" /\ ret.value = Null

\* C39: the step in which the fetch of a doRefresh fails changes neither the
\* currentStatus of any context nor the store (the persisted cache entry
\* {status, fetchedAt} included), queues no change-event and calls no handler.
C39_FailedFetchChangesNothing ==
    [][FetchFailed' =>
          /\ currentStatus' = currentStatus
          /\ store' = store
          /\ events' = events
          /\ dispatch'.calls = <<>>]_vars

C39_Witness ==
    /\ ret.op = "refresh"
    /\ ~ret.ok
    /\ ret.held
    /\ currentStatus[ret.ctx] = StatusMetered
    /\ Persisted(STATUS_CACHE_KEY) # Null
    /\ Persisted(STATUS_CACHE_KEY).status = StatusMetered
    /\ handlers[ret.ctx] # <<>>

\* The step called autoSyncRefresh() in context c once: one more caller, and a
\* request only if none was in flight (the call joins the refresh in flight).
CallsAutoSyncRefreshOnce(c) ==
    /\ refreshInFlight'[c].set
    /\ refreshInFlight'[c].calls = refreshInFlight[c].calls + 1
    /\ refreshInFlight'[c].requests = 1
    /\ task'[c]["auto"].pc \in {"fetch", "save"}
    /\ refreshInFlight[c].set => task'[c] = task[c]

\* C32: with background tracking enabled, a runtime message calls the
\* de-duplicated autoSyncRefresh once and is acknowledged exactly when its type
\* is the checkout-returned type, and an alarm calls it once exactly when its
\* name is the tracking alarm's; any other message or alarm starts no fetch,
\* joins none and is not acknowledged.
C32_OnlyTheKnownMessageAndAlarmRefresh ==
    [][/\ ret'.op = "message" =>
            /\ backgroundTracking[ret'.ctx].enabled
            /\ ret'.ok <=> ret'.input = CHECKOUT_RETURN_MESSAGE
            /\ IF ret'.input = CHECKOUT_RETURN_MESSAGE
               THEN CallsAutoSyncRefreshOnce(ret'.ctx)
               ELSE refreshInFlight' = refreshInFlight /\ task' = task
       /\ ret'.op = "alarm" =>
            /\ backgroundTracking[ret'.ctx].enabled
            /\ ~ret'.ok
            /\ IF ret'.input = DEFAULT_BG_ALARM_NAME
               THEN CallsAutoSyncRefreshOnce(ret'.ctx)
               ELSE refreshInFlight' = refreshInFlight /\ task' = task]_vars

C32_Witness ==
    /\ ret.op = "message"
    /\ ret.input = CHECKOUT_RETURN_MESSAGE
    /\ ret.ok
    /\ refreshInFlight[ret.ctx].calls = 2
    /\ refreshInFlight[ret.ctx].requests = 1

\* C34: per client AutoSync is inactive with no listener set attached or
\* active with exactly one; a set is attached only by a step that finds the
\* state enabled, not active, in an extension page; and while AutoSync is
\* disabled no set is attached, whatever enable and disable calls came before.
C34_AtMostOneListenerSet ==
    /\ [](\A c \in Clients :
            /\ autoSync[c].attached = IF autoSync[c].state.activated THEN 1 ELSE 0
            /\ autoSync[c].attached = 0 <=> autoSync[c].listeners = Null
            /\ ~autoSync[c].state.enabled => autoSync[c].attached = 0)
    /\ [][\A c \in Clients :
            autoSync'[c].attached > autoSync[c].attached =>
                /\ autoSync'[c].state.enabled
                /\ ~autoSync[c].state.activated
                /\ autoSync[c].ui]_vars

C34_Witness ==
    /\ autoSync["popup"].attached = 1
    /\ autoSync["popup"].attempts = 3
    /\ budget.calls = 0

\* The event delivered by the last step carries no new cached status.
CarriesNoStatus(ev) ==
    \/ ev.key # STATUS_CACHE_KEY
    \/ ev.newValue = Null
    \/ ev.newValue.status = Null

\* C38: the delivery of a change-event for another key, of a removal of the
\* cache entry, or of a cache entry without a status leaves currentStatus and
\* the handlers of every context as they were and calls no handler.
C38_EventsWithoutStatusChangeNothing ==
    [][(dispatch'.via = "onChanged" /\ CarriesNoStatus(dispatch'.event)) =>
          /\ currentStatus' = currentStatus
          /\ handlers' = handlers
          /\ dispatch'.calls = <<>>]_vars

C38_Witness ==
    /\ dispatch.via = "onChanged"
    /\ dispatch.event.key = STATUS_CACHE_KEY
    /\ dispatch.event.newValue = Null
    /\ currentStatus[dispatch.ctx] # Null
    /\ handlers[dispatch.ctx] # <<>>

\* The last step returned from getUser() or refresh().
EntitlementCheckReturned == ret.op \in {"getUser", "refresh"}

RunWritten(e) == e # Null /\ e.fetchedAt >= StartTime

\* The tiers that hold an entry written in this run.
WrittenTiers == {t \in Tiers : RunWritten(store[t][STATUS_CACHE_KEY])}

JustWrote(s, t) ==
    /\ ret.op = "refresh"
    /\ ret.ok
    /\ ret.saved = t
    /\ ret.value = s
    /\ store[t][STATUS_CACHE_KEY] # Null
    /\ store[t][STATUS_CACHE_KEY].status = s
    /\ \A c \in Clients :
          storageListenerAttached[c] =>
              /\ events[c] # <<>>
              /\ events[c][Len(events[c])].newValue = store[t][STATUS_CACHE_KEY]

\* The last step is a refresh whose save wrote another status or another tier.
WroteOther(s, t) ==
    /\ ret.op = "refresh"
    /\ ret.ok
    /\ ret.saved # "none"
    /\ ret.value # s \/ ret.saved # t

\* The last step is a refresh whose save reached no tier.
SaveFailed ==
    /\ ret.op = "refresh"
    /\ ret.ok
    /\ ret.saved = "none"

\* Every context with a store listener holds s and has no event to receive.
Synced(s) ==
    \A c \in Clients :
        storageListenerAttached[c] =>
            /\ currentStatus[c] = s
            /\ events[c] = <<>>

\* The handler calls a delivery makes: every registered handler, with the
\* status of the event, unless the previous stored status is the same on all
\* compared fields.
NotifiedOfEvent ==
    LET c == dispatch.ctx
        next == dispatch.event.newValue.status
        prev == PayloadPrev(dispatch.event)
    IN  /\ currentStatus[c] = next
        /\ \/ prev # Null /\ ~hasAnyChange(computeStatusDiff(prev, next))
           \/ /\ Len(dispatch.calls) = Len(handlers[c])
              /\ \A i \in 1..Len(handlers[c]) :
                    /\ dispatch.calls[i].handler = handlers[c][i]
                    /\ dispatch.calls[i].next = next

====
